---- MODULE Spec2Model ----
(***************************************************************************)
(* Model of the adaptive batch processing engine of framesnap:             *)
(*   - useAdvancedRequestManager (circuit breaker, concurrency limiter,    *)
(*     pending queue, per-request timeout and cancellation);               *)
(*   - useSmartAIProcessor (batch scheduler on top of the manager).        *)
(*                                                                         *)
(* JavaScript runs one task at a time: every action below is one task      *)
(* (an event handler, a timer callback, the continuation of a settled      *)
(* network call) together with the synchronous code and the promise        *)
(* continuations it triggers.                                              *)
(***************************************************************************)
EXTENDS Integers, Sequences, FiniteSets, TLC

\* ------------------------------------------------------------------ bounds
NumIds == 2          \* request ids a caller uses: 1..NumIds
MaxRequests == 7     \* admitted submitRequest calls explored
MaxLimit == 1        \* setMaxConcurrency is called with 0..MaxLimit
NumFrames == 4       \* frames handed to processFrames: 1..NumFrames
MaxRuns == 2         \* processFrames runs alive at a time (a stopped run lives on)
MaxFrameRequests == 5  \* requests the frames of the explored runs may need
MaxOutageRequests == 9 \* the same, for the runs explored with the upstream service down
MaxRetryCount == 3   \* a frame that failed as often is not submitted again
MaxTasks == 10       \* tasks in a list that is planned on its own: 1..MaxTasks
MaxTokensPerMinute == 230000  \* usage recorded by the explored updateTokenUsage calls
MaxFrameCount == 40  \* tasks in a list planned without usage data: 1..MaxFrameCount
StartTime == 1000000 \* Date.now() when the page is loaded (ms since 1970: beyond every delay)
MaxElapsed == 4000   \* ms of page life explored where the clock is read
NumItems == 4        \* images looked up in the cache table: 1..NumItems
NumJobs == 3         \* functions added to the sequential queue: ids 1..NumJobs
MaxLoops == 2        \* process() calls of the sequential queue alive at a time
NumDirectFrames == 2 \* frames handed to the direct processor: 1..NumDirectFrames

\* ------------------------------------------------------- program constants
DefaultMaxRetries == 3
HashedChars == 1000
DEFAULT_TIMEOUT == 30000
CIRCUIT_BREAKER_THRESHOLD == 5
CIRCUIT_BREAKER_RESET_TIME == 60000
InitialMaxConcurrency == 3
RecommendedBatchSize == 10   \* checkBudgetStatus without usage data
TOKENS_PER_MINUTE_LIMIT == 200000
ANALYSIS_TOKENS_PER_FRAME == 1500
PROMPT_TOKENS_PER_FRAME == 400
TOKEN_SAFETY_BUFFER == 10000

\* Timestamps are kept relative to the current instant: Date.now() reads 0, and
\* the passing of TickMs moves every stored timestamp TickMs into the past.  The
\* code only compares a stored timestamp with Date.now(), so one that is not in
\* the future is kept as 0.
now == 0

\* The clock advances in steps of one request timeout: a timer armed before a
\* step is due after it.
TickMs == DEFAULT_TIMEOUT

Ids == 1..NumIds
Frames == 1..NumFrames
RunIds == 1..MaxRuns
Items == 1..NumItems
JobIds == 1..NumJobs
LoopIds == 1..MaxLoops
DirectFrames == 1..NumDirectFrames
LimitInputs == 0..MaxLimit

\* How the message of an error thrown by a unit of work is classified by
\* executeRequest's catch block (message.includes('timeout'), 'cancelled'/'abort').
ErrKinds == {"plain", "timeoutmsg", "abortmsg"}

VARIABLES
  circuitBreaker,      \* useState<CircuitBreakerState>: the state all updaters have produced
  cbSeen,              \* what the submitRequest in use reads of the circuitBreaker it closed over
  requests,            \* useState<Map<id, RequestState>>: id -> status ("none": no record)
  totalRequests,       \* stats.totalRequests
  abortControllers,    \* useRef<Map<id, AbortController>>: the ids that have an entry
  maxConcurrency,      \* useRef<number>
  currentConcurrency,  \* useRef<number>
  pendingQueue,        \* useRef<Array<{id, fn, resolve, reject}>>
  unit,                \* id -> where its unit of work fn is executing
  timer,               \* id -> its timeout timer: "none", "armed", "due"
  promise,             \* id -> state of the promise submitRequest returned
  microtasks,          \* ids whose promise settled and whose awaiting caller has not run yet
  pqTimers,            \* setTimeout(processQueue, 0) callbacks not yet run
  probe,               \* history: the id admitted as half-open probe and not yet ended (0: none)
  progress,            \* useState<SmartBatchProgress>: phase, frame counters, qualityProfile
  isPaused,            \* useRef<boolean>
  isProcessing,        \* useRef<boolean>
  failedTasks,         \* useRef<FrameTask[]>: frameIndex and retryCount, in push order
  runs,                \* slot -> the processFrames call in it that has not returned
  task,                \* frame -> its FrameTask and where its analyzeFrame call is waiting
  cache,               \* frame_analysis_cache: the fingerprints that have a row
  frameStates,         \* useState<Map<frameIndex, ProcessingState>>
  tokenUsage,          \* useState<TokenUsageData | null> of the token budget manager
  planned,             \* the batches and the inter-batch delay of the last list planned
  retryCall,           \* the withRetry call of useAIBatchAnalysis: its locals and where it waits
  aborted,             \* abortControllerRef.current?.signal.aborted
  lastRequestTime,     \* useRef<number>(0) of the token budget manager
  clock,               \* Date.now(), in ms
  issuedAt,            \* history: Date.now() when the last batch was dispatched (0: none yet)
  throttled,           \* history: the last processBatch slept before dispatching
  cacheRows,           \* frame_analysis_cache with its expiry: image_hash -> the row, if any
  lookup,              \* image -> the analyzeFrame call for it, from its cache lookup on
  queueRef,            \* the SequentialRequestQueue: queue, isProcessing, cancelled, paused
  loops,               \* the process() calls that have not returned, and where each waits
  job,                 \* id -> its function (idle, running, finished) and the promise of add
  started,             \* history: the ids in the order in which their functions started
  directFrameStates,   \* useDirectAIProcessor's frameStates, as getFrameState of the latest render reads it
  request,             \* frame -> its analyzeFrame call of the direct processor, and what its closure read
  retryTimeouts,       \* frame -> the retry timer the direct processor holds for it, if any
  cleared              \* history: clearFrameState was called for the frame and no operation started since

rmVars == <<circuitBreaker, cbSeen, requests, totalRequests, abortControllers,
            maxConcurrency, currentConcurrency, pendingQueue, unit, timer,
            promise, microtasks, pqTimers, probe>>

spVars == <<progress, isPaused, isProcessing, failedTasks, runs, task, cache,
            frameStates>>

tbVars == <<tokenUsage, planned>>

baVars == <<retryCall, aborted>>

\* The hooks that stand beside the engine.
thVars == <<lastRequestTime, clock, issuedAt, throttled>>

fcVars == <<cacheRows, lookup>>

sqVars == <<queueRef, loops, job, started>>

dpVars == <<directFrameStates, request, retryTimeouts, cleared>>

otherHooks == <<baVars, thVars, fcVars, sqVars, dpVars>>

vars == <<rmVars, spVars, tbVars, otherHooks>>

\* ---------------------------------------------------------------- helpers
Max(a, b) == IF a >= b THEN a ELSE b
Min(a, b) == IF a <= b THEN a ELSE b

\* CircuitBreakerState without lastFailureTime, which the hook writes and never reads.
ClosedBreaker ==
  [isOpen |-> FALSE, failures |-> 0, nextRetryTime |-> 0]

\* What submitRequest reads of the circuitBreaker value it closed over:
\* isOpen and, when open, nextRetryTime.
Seen(cb) ==
  [isOpen |-> cb.isOpen, nextRetryTime |-> IF cb.isOpen THEN cb.nextRetryTime ELSE 0]

\* The set of ids held by a queue.
QueueIds(q) == {q[i] : i \in 1..Len(q)}

\* The ids whose unit of work is executing.
Executing == {id \in DOMAIN unit : unit[id] \in {"exec", "qexec"}}

\* updateCircuitBreaker's updater with the threshold test off by one.
UpdateCircuitBreakerOffByOne(prev, success, t) ==
  IF success
    THEN ClosedBreaker
    ELSE LET newFailures == prev.failures + 1
             shouldOpen == newFailures > CIRCUIT_BREAKER_THRESHOLD
         IN [isOpen |-> shouldOpen,
             failures |-> newFailures,
             nextRetryTime |-> IF shouldOpen THEN t + CIRCUIT_BREAKER_RESET_TIME
                                             ELSE prev.nextRetryTime]

\* updateCircuitBreaker's updater: the next breaker state from prev.
UpdateCircuitBreaker(prev, success, t) ==
  IF success
    THEN ClosedBreaker
    ELSE LET newFailures == prev.failures + 1
             shouldOpen == newFailures >= CIRCUIT_BREAKER_THRESHOLD
         IN [isOpen |-> shouldOpen,
             failures |-> newFailures,
             nextRetryTime |-> IF shouldOpen THEN t + CIRCUIT_BREAKER_RESET_TIME
                                             ELSE prev.nextRetryTime]

\* updateRequestState: merges into an existing record only.
UpdateRequestState(reqs, id, status) ==
  IF reqs[id] = "none" THEN reqs ELSE [reqs EXCEPT ![id] = status]

\* resolve()/reject() of an already settled promise is a no-op.
Settle(p, id, outcome) ==
  IF p[id] = "pending" THEN [p EXCEPT ![id] = outcome] ELSE p

\* The awaiting caller is scheduled when the promise goes from pending to settled.
Wake(m, p, id) ==
  IF p[id] = "pending" THEN Append(m, id) ELSE m

\* setTimeout(processQueue, 0).  A callback starts at most one queued unit, and a
\* unit holds its id until it ends and schedules a callback of its own, so more
\* pending callbacks than there are ids start nothing that as many would not.
Schedule(n) == IF n < Cardinality(DOMAIN unit) THEN n + 1 ELSE n

\* The circuit check at the top of submitRequest, on the closed-over state.
CircuitRejects(cb, t) == cb.isOpen /\ t < cb.nextRetryTime

\* ------------------------------------------------------------------- init
\* The hooks before any call: the request manager for the ids D with limit
\* limit, and the smart processor.
InitManager(D, limit) ==
  /\ circuitBreaker = ClosedBreaker
  /\ cbSeen = Seen(ClosedBreaker)
  /\ requests = [id \in D |-> "none"]
  /\ totalRequests = 0
  /\ abortControllers = {}
  /\ maxConcurrency = limit
  /\ currentConcurrency = 0
  /\ pendingQueue = <<>>
  /\ unit = [id \in D |-> "idle"]
  /\ timer = [id \in D |-> "none"]
  /\ promise = [id \in D |-> "none"]
  /\ microtasks = <<>>
  /\ pqTimers = 0
  /\ probe = 0

\* A slot for a processFrames call that holds none, and a frame no analyzeFrame
\* call is working on.
NoRun ==
  [pc |-> "off", batches |-> <<>>, i |-> 0, cb |-> Seen(ClosedBreaker),
   qualityProfile |-> "balanced", adaptiveDelayMs |-> 0]

\* attempts: the submitRequest calls admitted for the item; retryCount: the
\* field of its FrameTask.
NoTask == [pc |-> "none", run |-> 0, attempts |-> 0, retryCount |-> 0]

IdleProgress ==
  [phase |-> "idle", totalFrames |-> 0, completedFrames |-> 0, failedFrames |-> 0,
   cachedFrames |-> 0, adaptiveDelayMs |-> 2000, qualityProfile |-> "balanced"]

\* The state getFrameState returns for a frame that has no entry.
DefaultFrameState ==
  [error |-> "null", retryCount |-> 0, isFromCache |-> FALSE, progress |-> 0]

InitProcessor ==
  /\ progress = IdleProgress
  /\ isPaused = FALSE
  /\ isProcessing = FALSE
  /\ failedTasks = <<>>
  /\ runs = [r \in RunIds |-> NoRun]
  /\ task = [f \in Frames |-> NoTask]
  /\ cache = {}
  /\ frameStates = [f \in Frames |-> DefaultFrameState]

\* The token budget manager before any usage data (tokenUsage is null), and no
\* list planned.
NoUsage == [known |-> FALSE, tokensPerMinute |-> 0, remainingTokens |-> 0, resetTime |-> 0]

NoPlan == [tasks |-> 0, qualityProfile |-> "balanced", hasDescriptions |-> FALSE,
           tokenEstimate |-> [analysisTokens |-> 0, promptTokens |-> 0,
                              totalTokens |-> 0, estimatedCost |-> 0],
           batchSize |-> 0, batches |-> <<>>, delay |-> 0]

InitBudget ==
  /\ tokenUsage = NoUsage
  /\ planned = NoPlan

\* withRetry has not been called.
NoCall == [pc |-> "idle", maxRetries |-> 0, attempt |-> 0, lastError |-> "none",
           calls |-> 0, outcomes |-> <<>>]

InitBatchAnalysis ==
  /\ retryCall = NoCall
  /\ aborted = FALSE

InitThrottle ==
  /\ lastRequestTime = 0
  /\ clock = StartTime
  /\ issuedAt = 0
  /\ throttled = FALSE

\* The data URLs of the images: HashedChars + 1 characters each.  Images 1
\* and 2 are the same picture; image 3 differs from them in its last character
\* only; image 4 differs in its first.
DataUrl(first, last) ==
  [i \in 1..(HashedChars + 1) |-> IF i = 1 THEN first
                                  ELSE IF i = HashedChars + 1 THEN last ELSE "A"]

imageData(item) ==
  CASE item \in {1, 2} -> DataUrl("A", "A")
    [] item = 3 -> DataUrl("A", "B")
    [] OTHER -> DataUrl("B", "A")

\* generateImageHash(imageData): the SHA-256 digest of the first 1000
\* characters.  The digest is taken to be free of collisions: the text that is
\* hashed stands for it.
generateImageHash(data) == SubSeq(data, 1, Min(HashedChars, Len(data)))

\* The image_hash of an image, named by the first image that has that
\* fingerprint.
image_hash(item) ==
  CHOOSE first \in Items :
    /\ generateImageHash(imageData(first)) = generateImageHash(imageData(item))
    /\ \A other \in Items :
         generateImageHash(imageData(other)) = generateImageHash(imageData(item))
           => first <= other

Hashes == {image_hash(item) : item \in Items}

\* No row, and no call.  The description of a row is the image it was
\* computed for (0: none).  expired: the lookup of the call found a row past
\* its expiry (history).
NoRow == [state |-> "none", description |-> 0]
NoLookup == [pc |-> "idle", result |-> 0, expired |-> FALSE]

InitCache ==
  /\ cacheRows = [h \in Hashes |-> NoRow]
  /\ lookup = [item \in Items |-> NoLookup]

\* new SequentialRequestQueue().
NewQueue == [queue |-> <<>>, isProcessing |-> FALSE, cancelled |-> FALSE, paused |-> FALSE]
NoLoop == [pc |-> "off", item |-> 0]

InitQueue ==
  /\ queueRef = NewQueue
  /\ loops = [l \in LoopIds |-> NoLoop]
  /\ job = [id \in JobIds |-> [fn |-> "idle", promise |-> "none"]]
  /\ started = <<>>

\* getFrameState's fallback for a frame without an entry.
DefaultDirectState ==
  [isAnalyzing |-> FALSE, error |-> "null", retryCount |-> 0,
   isWaitingToRetry |-> FALSE, retryCountdown |-> 0]

InitDirect ==
  /\ directFrameStates = [f \in DirectFrames |-> DefaultDirectState]
  /\ request = [f \in DirectFrames |-> [pc |-> "idle", currentRetryCount |-> 0, failed |-> FALSE]]
  /\ retryTimeouts = [f \in DirectFrames |-> "none"]
  /\ cleared = [f \in DirectFrames |-> FALSE]

InitOtherHooks == InitBatchAnalysis /\ InitThrottle /\ InitCache /\ InitQueue /\ InitDirect

Init == InitManager(Ids, InitialMaxConcurrency) /\ InitProcessor /\ InitBudget
        /\ InitOtherHooks

\* --------------------------------------------------- request manager steps
\* No promise continuation is waiting to run: the next task may start.
Quiet == microtasks = <<>>

\* Once a request is over (its unit of work ended, its promise settled and seen
\* by the caller), the model stops tracking the record and the controller entry
\* of its id: from then on the slot stands for an id not used before.
Over(id, p) ==
  /\ unit[id] = "idle"
  /\ id \notin QueueIds(pendingQueue)
  /\ p[id] = "none"

Stale(id) == Over(id, promise) /\ (requests[id] # "none" \/ id \in abortControllers)

\* The next task may start, and the model has nothing to forget first.
Ready == Quiet /\ \A id \in DOMAIN unit : ~Stale(id)

\* A slot of the model is free for a new request id: the request that used it
\* is over (not queued, not executing, its promise settled and seen).
Free(id) ==
  /\ unit[id] = "idle"
  /\ id \notin QueueIds(pendingQueue)
  /\ promise[id] = "none"

\* submitRequest(fn, id) of the render that saw the breaker as snap, circuit check
\* fails: throws.
SubmitRejected(id, snap) ==
  /\ CircuitRejects(snap, now)
  /\ promise' = [promise EXCEPT ![id] = "rej_circuit"]
  /\ microtasks' = Append(microtasks, id)
  /\ UNCHANGED <<circuitBreaker, cbSeen, requests, totalRequests, abortControllers,
                 maxConcurrency, currentConcurrency, pendingQueue, unit, timer,
                 pqTimers, probe>>

\* submitRequest(fn, id), circuit check passes: record, controller, executeRequest.
SubmitAdmitted(id, snap) ==
  /\ ~CircuitRejects(snap, now)
  /\ totalRequests < MaxRequests
  /\ circuitBreaker' = IF snap.isOpen
                         THEN [circuitBreaker EXCEPT !.isOpen = FALSE]
                         ELSE circuitBreaker
  /\ requests' = [requests EXCEPT ![id] = "processing"]
  /\ totalRequests' = totalRequests + 1
  /\ abortControllers' = abortControllers \cup {id}
  /\ promise' = [promise EXCEPT ![id] = "pending"]
  /\ IF currentConcurrency >= maxConcurrency
       THEN /\ pendingQueue' = Append(pendingQueue, id)
            /\ UNCHANGED <<currentConcurrency, unit, timer>>
       ELSE /\ currentConcurrency' = currentConcurrency + 1
            /\ timer' = [timer EXCEPT ![id] = "armed"]
            /\ unit' = [unit EXCEPT ![id] = "exec"]
            /\ UNCHANGED pendingQueue
  /\ UNCHANGED <<cbSeen, maxConcurrency, microtasks, pqTimers>>
  /\ probe' = IF probe = 0 /\ circuitBreaker.isOpen /\ now >= circuitBreaker.nextRetryTime
              THEN id ELSE probe

\* submitRequest(fn, id) with the default timeout, on a free slot.
submitRequest(id) ==
  /\ Free(id)
  /\ (SubmitRejected(id, cbSeen) \/ SubmitAdmitted(id, cbSeen))

\* The timeout timer armed by executeRequest fires.
RequestTimeout(id) ==
  /\ timer[id] = "due"
  /\ timer' = [timer EXCEPT ![id] = "none"]
  /\ IF id \in abortControllers
       THEN /\ promise' = Settle(promise, id, "rej_timeout")
            /\ microtasks' = Wake(microtasks, promise, id)
       ELSE UNCHANGED <<promise, microtasks>>
  /\ UNCHANGED <<circuitBreaker, cbSeen, requests, totalRequests, abortControllers,
                 maxConcurrency, currentConcurrency, pendingQueue, unit, pqTimers, probe>>

\* The request status executeRequest's catch block records for an error message.
FinalStatus(kind) ==
  IF kind = "abortmsg" THEN "cancelled"
  ELSE IF kind = "timeoutmsg" THEN "timeout" ELSE "failed"

\* The unit of work started by executeRequest settles: try / catch / finally.
ExecSettles(id, ok, kind) ==
  /\ unit[id] = "exec"
  /\ timer' = [timer EXCEPT ![id] = "none"]
  /\ IF ok
       THEN /\ requests' = UpdateRequestState(requests, id, "completed")
            /\ circuitBreaker' = UpdateCircuitBreaker(circuitBreaker, TRUE, now)
            /\ promise' = Settle(promise, id, "resolved")
       ELSE /\ requests' = UpdateRequestState(requests, id, FinalStatus(kind))
            /\ circuitBreaker' = IF kind = "abortmsg"
                                   THEN circuitBreaker
                                   ELSE UpdateCircuitBreaker(circuitBreaker, FALSE, now)
            /\ promise' = Settle(promise, id, "rej_error")
  /\ microtasks' = Wake(microtasks, promise, id)
  /\ currentConcurrency' = currentConcurrency - 1
  /\ abortControllers' = abortControllers \ {id}
  /\ unit' = [unit EXCEPT ![id] = "idle"]
  /\ pqTimers' = Schedule(pqTimers)
  /\ UNCHANGED <<cbSeen, totalRequests, maxConcurrency, pendingQueue>>
  /\ probe' = IF probe = id THEN 0 ELSE probe

\* processQueue, up to its await: a setTimeout(processQueue, 0) callback runs.
processQueue ==
  /\ pqTimers > 0
  /\ pqTimers' = pqTimers - 1
  /\ IF currentConcurrency >= maxConcurrency \/ pendingQueue = <<>>
       THEN UNCHANGED <<pendingQueue, currentConcurrency, unit>>
       ELSE /\ pendingQueue' = Tail(pendingQueue)
            /\ currentConcurrency' = currentConcurrency + 1
            /\ unit' = [unit EXCEPT ![Head(pendingQueue)] = "qexec"]
  /\ UNCHANGED <<circuitBreaker, cbSeen, requests, totalRequests, abortControllers,
                 maxConcurrency, timer, promise, microtasks, probe>>

\* processQueue, after its await: the unit of work it started settles.
QueuedSettles(id, ok) ==
  /\ unit[id] = "qexec"
  /\ promise' = Settle(promise, id, IF ok THEN "resolved" ELSE "rej_error")
  /\ microtasks' = Wake(microtasks, promise, id)
  /\ currentConcurrency' = currentConcurrency - 1
  /\ unit' = [unit EXCEPT ![id] = "idle"]
  /\ pqTimers' = Schedule(pqTimers)
  /\ UNCHANGED <<circuitBreaker, cbSeen, requests, totalRequests, abortControllers,
                 maxConcurrency, pendingQueue, timer>>
  /\ probe' = IF probe = id THEN 0 ELSE probe

cancelRequest(id) ==
  /\ requests' = UpdateRequestState(requests, id, "cancelled")
  /\ pendingQueue' = SelectSeq(pendingQueue, LAMBDA x : x # id)
  /\ UNCHANGED <<circuitBreaker, cbSeen, totalRequests, abortControllers,
                 maxConcurrency, currentConcurrency, unit, timer, promise,
                 microtasks, pqTimers>>
  /\ probe' = IF probe = id /\ id \in QueueIds(pendingQueue) THEN 0 ELSE probe

\* cancelAllRequests rejects every queued item, in queue order.
RejectAll(p, q) ==
  [id \in DOMAIN p |-> IF id \in QueueIds(q) /\ p[id] = "pending" THEN "rej_cancelled" ELSE p[id]]

cancelAllRequests ==
  /\ abortControllers' = {}
  /\ promise' = RejectAll(promise, pendingQueue)
  /\ microtasks' = microtasks \o SelectSeq(pendingQueue, LAMBDA x : promise[x] = "pending")
  /\ pendingQueue' = <<>>
  /\ requests' = [id \in DOMAIN requests |-> IF requests[id] \in {"pending", "processing"}
                                   THEN "cancelled" ELSE requests[id]]
  /\ currentConcurrency' = 0
  /\ UNCHANGED <<circuitBreaker, cbSeen, totalRequests, maxConcurrency, unit,
                 timer, pqTimers>>
  /\ probe' = IF probe \in QueueIds(pendingQueue) THEN 0 ELSE probe

resetCircuitBreaker ==
  /\ circuitBreaker' = ClosedBreaker
  /\ UNCHANGED <<cbSeen, requests, totalRequests, abortControllers, maxConcurrency,
                 currentConcurrency, pendingQueue, unit, timer, promise, microtasks,
                 pqTimers, probe>>

setMaxConcurrency(limit) ==
  /\ maxConcurrency' = Max(1, limit)
  /\ UNCHANGED <<circuitBreaker, cbSeen, requests, totalRequests, abortControllers,
                 currentConcurrency, pendingQueue, unit, timer, promise, microtasks,
                 pqTimers, probe>>

\* React re-renders: submitRequest is re-created over the current circuitBreaker
\* (useCallback dependency) and the caller picks the new callback up.
Render ==
  /\ cbSeen # Seen(circuitBreaker)
  /\ cbSeen' = Seen(circuitBreaker)
  /\ UNCHANGED <<circuitBreaker, requests, totalRequests, abortControllers,
                 maxConcurrency, currentConcurrency, pendingQueue, unit, timer,
                 promise, microtasks, pqTimers, probe>>

\* TickMs pass.
Age(cb) == [cb EXCEPT !.nextRetryTime = Max(0, @ - TickMs)]

Tick ==
  /\ circuitBreaker' = Age(circuitBreaker)
  /\ cbSeen' = Age(cbSeen)
  /\ timer' = [id \in DOMAIN timer |-> IF timer[id] = "armed" THEN "due" ELSE timer[id]]
  /\ UNCHANGED <<requests, totalRequests, abortControllers, maxConcurrency,
                 currentConcurrency, pendingQueue, unit, promise, microtasks,
                 pqTimers, probe>>

\* The model forgets the record and the controller entry of a request that is over.
Retire(id) ==
  /\ Quiet
  /\ Stale(id)
  /\ requests' = [requests EXCEPT ![id] = "none"]
  /\ abortControllers' = abortControllers \ {id}
  /\ UNCHANGED <<circuitBreaker, cbSeen, totalRequests, maxConcurrency,
                 currentConcurrency, pendingQueue, unit, timer, promise,
                 microtasks, pqTimers, probe>>

\* The caller awaiting submitRequest(.., id) continues with the outcome.
CallerContinues ==
  /\ microtasks # <<>>
  /\ LET id == Head(microtasks)
     IN /\ microtasks' = Tail(microtasks)
        /\ promise' = [promise EXCEPT ![id] = "none"]
        /\ IF Over(id, promise')
             THEN /\ requests' = [requests EXCEPT ![id] = "none"]
                  /\ abortControllers' = abortControllers \ {id}
             ELSE UNCHANGED <<requests, abortControllers>>
  /\ UNCHANGED <<circuitBreaker, cbSeen, totalRequests, maxConcurrency,
                 currentConcurrency, pendingQueue, unit, timer, pqTimers, probe>>

\* ------------------------------------------- the request manager on its own
Next ==
  \/ CallerContinues /\ UNCHANGED <<spVars, tbVars, otherHooks>>
  \/ \E id \in Ids : Retire(id) /\ UNCHANGED <<spVars, tbVars, otherHooks>>
  \/ \E id \in Ids : Ready /\ submitRequest(id) /\ UNCHANGED <<spVars, tbVars, otherHooks>>
  \/ \E id \in Ids : Ready /\ RequestTimeout(id) /\ UNCHANGED <<spVars, tbVars, otherHooks>>
  \/ \E id \in Ids, ok \in BOOLEAN, kind \in ErrKinds : Ready /\ ExecSettles(id, ok, kind) /\ UNCHANGED <<spVars, tbVars, otherHooks>>
  \/ Ready /\ processQueue /\ UNCHANGED <<spVars, tbVars, otherHooks>>
  \/ \E id \in Ids, ok \in BOOLEAN : Ready /\ QueuedSettles(id, ok) /\ UNCHANGED <<spVars, tbVars, otherHooks>>
  \/ \E id \in Ids : Ready /\ cancelRequest(id) /\ UNCHANGED <<spVars, tbVars, otherHooks>>
  \/ Ready /\ cancelAllRequests /\ UNCHANGED <<spVars, tbVars, otherHooks>>
  \/ Ready /\ resetCircuitBreaker /\ UNCHANGED <<spVars, tbVars, otherHooks>>
  \/ \E limit \in LimitInputs : Ready /\ setMaxConcurrency(limit) /\ UNCHANGED <<spVars, tbVars, otherHooks>>
  \/ Ready /\ Render /\ UNCHANGED <<spVars, tbVars, otherHooks>>
  \/ Ready /\ Tick /\ UNCHANGED <<spVars, tbVars, otherHooks>>

Spec == Init /\ [][Next]_vars

\* The event loop runs what is ready: promise continuations and timer
\* callbacks; and every unit of work that was started settles.
ManagerRuns ==
  \/ CallerContinues /\ UNCHANGED <<spVars, tbVars, otherHooks>>
  \/ \E id \in Ids : Retire(id) /\ UNCHANGED <<spVars, tbVars, otherHooks>>
  \/ Ready /\ processQueue /\ UNCHANGED <<spVars, tbVars, otherHooks>>

ManagerUnitSettles ==
  \/ \E id \in Ids, ok \in BOOLEAN, kind \in ErrKinds :
       Ready /\ ExecSettles(id, ok, kind) /\ UNCHANGED <<spVars, tbVars, otherHooks>>
  \/ \E id \in Ids, ok \in BOOLEAN : Ready /\ QueuedSettles(id, ok) /\ UNCHANGED <<spVars, tbVars, otherHooks>>

SpecLive ==
  /\ Init
  /\ [][Next]_vars
  /\ WF_vars(ManagerRuns)
  /\ WF_vars(ManagerUnitSettles)

\* ------------------------------------------------------ the smart processor

Range(s) == {s[i] : i \in 1..Len(s)}

\* The quality profiles processFrames is called with.
Profiles == {"conservative"}
AllProfiles == {"conservative", "balanced", "aggressive"}

\* createBatches: batchSizes.
BatchSizes(profile) ==
  CASE profile = "conservative" -> 3
    [] profile = "balanced" -> 5
    [] profile = "aggressive" -> 8

\* The useEffect on the quality profile: concurrencyLimits.
ConcurrencyLimits(profile) ==
  CASE profile = "conservative" -> 1
    [] profile = "balanced" -> 2
    [] profile = "aggressive" -> 3

\* generateImageHash of the data of a frame: frames 1 and 2 show the same image.
Fingerprint(f) == IF f <= 2 THEN 1 ELSE f - 1

\* checkBudgetStatus that recommends the affordable number of frames as it is,
\* zero and negative numbers included.
checkBudgetStatusUnclamped(requestedTokens) ==
  IF ~tokenUsage.known
    THEN [canProceed |-> TRUE, suggestedDelay |-> 0,
          recommendedBatchSize |-> RecommendedBatchSize]
    ELSE
      LET timeToReset == Max(0, tokenUsage.resetTime - now)
          availableTokens == tokenUsage.remainingTokens - TOKEN_SAFETY_BUFFER
          batchSize == availableTokens \div ANALYSIS_TOKENS_PER_FRAME
          safeDelay == (3 * requestedTokens + 7) \div 8
      IN IF requestedTokens > availableTokens
           THEN [canProceed |-> batchSize > 0, suggestedDelay |-> timeToReset + 1000,
                 recommendedBatchSize |-> batchSize]
           ELSE IF tokenUsage.tokensPerMinute + requestedTokens > TOKENS_PER_MINUTE_LIMIT
             THEN [canProceed |-> TRUE, suggestedDelay |-> safeDelay,
                   recommendedBatchSize |-> availableTokens \div (2 * ANALYSIS_TOKENS_PER_FRAME)]
             ELSE [canProceed |-> TRUE, suggestedDelay |-> 0,
                   recommendedBatchSize |-> batchSize]

\* checkBudgetStatus(requestedTokens).  Math.floor is \div, Math.ceil of
\* requestedTokens / (TOKENS_PER_MINUTE_LIMIT * 0.8) * 60000 is taken on the
\* fraction 3 * requestedTokens / 8.
checkBudgetStatus(requestedTokens) ==
  IF ~tokenUsage.known
    THEN [canProceed |-> TRUE, suggestedDelay |-> 0,
          recommendedBatchSize |-> RecommendedBatchSize]
    ELSE
      LET timeToReset == Max(0, tokenUsage.resetTime - now)
          availableTokens == tokenUsage.remainingTokens - TOKEN_SAFETY_BUFFER
          batchSize == availableTokens \div ANALYSIS_TOKENS_PER_FRAME
          safeDelay == (3 * requestedTokens + 7) \div 8
      IN IF requestedTokens > availableTokens
           THEN [canProceed |-> batchSize > 0, suggestedDelay |-> timeToReset + 1000,
                 recommendedBatchSize |-> Max(1, batchSize)]
           ELSE IF tokenUsage.tokensPerMinute + requestedTokens > TOKENS_PER_MINUTE_LIMIT
             THEN [canProceed |-> TRUE, suggestedDelay |-> safeDelay,
                   recommendedBatchSize |-> availableTokens \div (2 * ANALYSIS_TOKENS_PER_FRAME)]
             ELSE [canProceed |-> TRUE, suggestedDelay |-> 0,
                   recommendedBatchSize |-> batchSize]

\* The batch size createBatches cuts the task list with.
BatchSize(n, qualityProfile) ==
  Min(BatchSizes(qualityProfile),
      checkBudgetStatus(n * ANALYSIS_TOKENS_PER_FRAME).recommendedBatchSize)

\* createBatches, for a batch size of at least 1.  The processor never feeds
\* usage data to its token budget manager: in its runs checkBudgetStatus
\* recommends RecommendedBatchSize.
createBatches(tasks, qualityProfile) ==
  LET recommendedBatchSize == BatchSize(Len(tasks), qualityProfile)
      n == (Len(tasks) + recommendedBatchSize - 1) \div recommendedBatchSize
  IN [k \in 1..n |-> SubSeq(tasks, (k - 1) * recommendedBatchSize + 1,
                            Min(k * recommendedBatchSize, Len(tasks)))]

\* The frame list processFrames is called with: every frame (retryFailedFrames
\* calls it with the frames that failed).
AllFrames == [i \in 1..NumFrames |-> i]

FrameInputs == {AllFrames}

\* The processFrames calls that have not returned.
Live == {r \in RunIds : runs[r].pc # "off"}

\* The frames a run has yet to settle: those of its current and later batches.
PendingFrames(run) ==
  UNION {Range(run.batches[k]) : k \in run.i..Len(run.batches)}

BusyFrames == UNION {PendingFrames(runs[r]) : r \in Live}

\* The frames of live runs that have yet to call submitRequest.
Unsubmitted ==
  {f \in BusyFrames : task[f].pc \in {"none", "lookup"}}

\* processBatch of run r up to Promise.allSettled: every task of the batch runs
\* analyzeFrame up to its first await.
Dispatch(t, batch, r) ==
  [f \in DOMAIN t |->
     IF f \in Range(batch)
       THEN [pc |-> "lookup", run |-> r, attempts |-> 0, retryCount |-> 0]
       ELSE t[f]]

\* updateFrameState(frameIndex, updates) for the frames of a set.
UpdateFrameStates(fs, F, updates) ==
  [f \in DOMAIN fs |->
     IF f \in F
       THEN [k \in DOMAIN fs[f] |-> IF k \in DOMAIN updates THEN updates[k] ELSE fs[f][k]]
       ELSE fs[f]]

\* The start of analyzeFrame for the items of a batch, up to the cache lookup.
Analyzing(fs, batch) ==
  UpdateFrameStates(fs, Range(batch), [error |-> "null", progress |-> 20])

\* The unit of work analyzeFrame hands to submitRequest starts for the frames
\* whose unit starts in this step: updateFrameState(frameIndex, { progress: 60 }).
UnitBegins ==
  /\ frameStates' = UpdateFrameStates(frameStates,
                       {f \in Frames : unit[f] = "idle" /\ unit'[f] \in {"exec", "qexec"}},
                       [progress |-> 60])
  /\ UNCHANGED <<progress, isPaused, isProcessing, failedTasks, runs, task, cache>>

\* The unit of work of frame f returns (updateFrameState(frameIndex,
\* { progress: 90 }) comes before its return) or throws.
UnitReturns(f, ok) ==
  /\ frameStates' = IF ok THEN UpdateFrameStates(frameStates, {f}, [progress |-> 90])
                          ELSE frameStates
  /\ UNCHANGED <<progress, isPaused, isProcessing, failedTasks, runs, task, cache>>

\* adaptiveDelayMs of the progress record processFrames sets.
AdaptiveDelayMs(q) ==
  IF q = "conservative" THEN 4000 ELSE IF q = "balanced" THEN 2500 ELSE 1500

\* The calls of processFrames that are explored: the requests made so far, those
\* the live runs may still make and those of the new run are within budget,
\* and no frame of the new run has failed MaxRetryCount times.
Explored(frames, budget) ==
  /\ totalRequests + Cardinality(Unsubmitted) + Len(frames) <= budget
  /\ \A f \in Range(frames) : frameStates[f].retryCount < MaxRetryCount

\* processFrames(frames, qualityProfile), up to the first await of the run, and
\* the render that follows with its useEffect on the quality profile.
\* The request ids are analyze-<frame index>: the model takes calls whose
\* frames no live run and no live request is using.
processFrames(frames, qualityProfile) ==
  /\ ~isProcessing
  /\ Live # RunIds
  /\ Range(frames) \cap BusyFrames = {}
  /\ \A f \in Range(frames) : Free(f) /\ task[f] = NoTask
  /\ isProcessing' = TRUE
  /\ isPaused' = FALSE
  /\ failedTasks' = <<>>
  /\ progress' = [phase |-> "processing", totalFrames |-> Len(frames),
                  completedFrames |-> 0, failedFrames |-> 0, cachedFrames |-> 0,
                  adaptiveDelayMs |-> AdaptiveDelayMs(qualityProfile),
                  qualityProfile |-> qualityProfile]
  /\ LET batches == createBatches(frames, qualityProfile)
         r == CHOOSE x \in RunIds \ Live : \A y \in RunIds \ Live : x <= y
     IN /\ runs' = [runs EXCEPT ![r] = [pc |-> "batch", batches |-> batches, i |-> 1,
                                        cb |-> Seen(circuitBreaker),
                                        qualityProfile |-> qualityProfile,
                                        adaptiveDelayMs |-> progress.adaptiveDelayMs]]
        /\ task' = Dispatch(task, batches[1], r)
        /\ frameStates' = Analyzing(frameStates, batches[1])
  /\ setMaxConcurrency(ConcurrencyLimits(qualityProfile))
  /\ UNCHANGED cache

\* The frames retryFailedFrames hands to processFrames.
FailedFrames == [i \in 1..Len(failedTasks) |-> failedTasks[i].frameIndex]

\* retryFailedFrames as it would be without its test of the failed list: with
\* no failed task, processFrames runs with no frame, and ends at once.
retryFailedFramesUnguarded ==
  IF isProcessing
    THEN /\ failedTasks' = <<>>
         /\ UNCHANGED <<progress, isPaused, isProcessing, runs, task, cache,
                        frameStates, rmVars>>
    ELSE IF failedTasks = <<>>
      THEN /\ progress' = [phase |-> "complete", totalFrames |-> 0,
                           completedFrames |-> 0, failedFrames |-> 0, cachedFrames |-> 0,
                           adaptiveDelayMs |-> AdaptiveDelayMs(progress.qualityProfile),
                           qualityProfile |-> progress.qualityProfile]
           /\ isPaused' = FALSE
           /\ UNCHANGED <<isProcessing, failedTasks, runs, task, cache, frameStates, rmVars>>
      ELSE /\ progress.qualityProfile \in Profiles
           /\ processFrames(FailedFrames, progress.qualityProfile)

\* retryFailedFrames: returns when no task has failed; otherwise empties
\* failedTasks, then calls processFrames, which throws when a run is in progress.
retryFailedFrames ==
  IF failedTasks = <<>>
    THEN UNCHANGED vars
    ELSE IF isProcessing
      THEN /\ failedTasks' = <<>>
           /\ UNCHANGED <<progress, isPaused, isProcessing, runs, task, cache,
                          frameStates, rmVars>>
      ELSE /\ progress.qualityProfile \in Profiles
           /\ processFrames(FailedFrames, progress.qualityProfile)

pauseProcessing ==
  /\ isPaused' = TRUE
  /\ cancelAllRequests
  /\ UNCHANGED <<progress, isProcessing, failedTasks, runs, task, cache, frameStates>>

resumeProcessing ==
  /\ isPaused
  /\ isPaused' = FALSE
  /\ UNCHANGED <<progress, isProcessing, failedTasks, runs, task, cache, frameStates>>

stopProcessing ==
  /\ isProcessing' = FALSE
  /\ isPaused' = FALSE
  /\ cancelAllRequests
  /\ progress' = [progress EXCEPT !.phase = "idle"]
  /\ UNCHANGED <<failedTasks, runs, task, cache, frameStates>>

\* processFrames after its loop: phase 'complete', and the finally block.
EndRun(r, prog) ==
  /\ progress' = [prog EXCEPT !.phase = "complete"]
  /\ isProcessing' = FALSE
  /\ runs' = [runs EXCEPT ![r] = NoRun]

\* What processTask's catch block pushes to failedTasks for the item of frame f.
Failed(f) == [frameIndex |-> f, retryCount |-> task[f].retryCount + 1]

\* ItemDone as it would be if processFrames went on as soon as one item of the
\* batch had settled, without the join on the whole batch.
ItemDoneFirstSettled(f, ok) ==
  LET r == task[f].run
      counted == IF ok THEN [progress EXCEPT !.completedFrames = @ + 1]
                       ELSE [progress EXCEPT !.failedFrames = @ + 1]
  IN /\ task' = [task EXCEPT ![f] = NoTask]
     /\ failedTasks' = IF ok THEN failedTasks ELSE Append(failedTasks, Failed(f))
     /\ progress' = counted
     /\ runs' = IF runs[r].pc = "batch" /\ runs[r].i < Len(runs[r].batches)
                  THEN [runs EXCEPT ![r].pc = "delay"] ELSE runs
     /\ UNCHANGED <<isProcessing, isPaused>>

\* ItemDone as it would be if the batch were joined with Promise.all: the first
\* item that fails rejects the join, and processFrames leaves its loop through
\* its catch block, with phase 'idle'.
ItemDoneFailFast(f, ok) ==
  LET r == task[f].run
      settled == \A g \in Frames \ {f} : task[g].run # r
      counted == IF ok THEN [progress EXCEPT !.completedFrames = @ + 1]
                       ELSE [progress EXCEPT !.failedFrames = @ + 1]
  IN /\ task' = [task EXCEPT ![f] = NoTask]
     /\ failedTasks' = IF ok THEN failedTasks ELSE Append(failedTasks, Failed(f))
     /\ IF runs[r].pc = "off"
          THEN progress' = counted /\ UNCHANGED <<runs, isProcessing>>
          ELSE IF ~ok
            THEN /\ progress' = [counted EXCEPT !.phase = "idle"]
                 /\ isProcessing' = FALSE
                 /\ runs' = [runs EXCEPT ![r] = NoRun]
            ELSE IF settled /\ runs[r].i = Len(runs[r].batches)
              THEN EndRun(r, counted)
              ELSE /\ progress' = counted
                   /\ runs' = IF settled THEN [runs EXCEPT ![r].pc = "delay"] ELSE runs
                   /\ UNCHANGED isProcessing
     /\ UNCHANGED isPaused

\* processTask and the callback of batch.map end for frame f, with a result (ok)
\* or in the catch blocks; when f is the last of its batch to settle,
\* Promise.allSettled resolves and processFrames goes on to the inter-batch
\* delay, or past its loop.
ItemDone(f, ok) ==
  LET r == task[f].run
      settled == \A g \in Frames \ {f} : task[g].run # r
      counted == IF ok THEN [progress EXCEPT !.completedFrames = @ + 1]
                       ELSE [progress EXCEPT !.failedFrames = @ + 1]
  IN /\ task' = [task EXCEPT ![f] = NoTask]
     /\ failedTasks' = IF ok THEN failedTasks ELSE Append(failedTasks, Failed(f))
     /\ IF settled /\ runs[r].i = Len(runs[r].batches)
          THEN EndRun(r, counted)
          ELSE /\ progress' = counted
               /\ runs' = IF settled THEN [runs EXCEPT ![r].pc = "delay"] ELSE runs
               /\ UNCHANGED isProcessing
     /\ UNCHANGED isPaused

\* analyzeFrame after the cache lookup: a hit returns the cached description, a
\* miss calls submitRequest, with the breaker state its run closed over.
LookupReturns(f) ==
  /\ task[f].pc = "lookup"
  /\ IF Fingerprint(f) \in cache
       THEN /\ ItemDone(f, TRUE)
            /\ frameStates' = UpdateFrameStates(frameStates, {f},
                                [retryCount |-> 0, isFromCache |-> TRUE, progress |-> 100])
            /\ UNCHANGED <<cache, rmVars>>
       ELSE /\ \/ /\ SubmitRejected(f, runs[task[f].run].cb)
                  /\ task' = [task EXCEPT ![f].pc = "submitted"]
               \/ /\ SubmitAdmitted(f, runs[task[f].run].cb)
                  /\ task' = [task EXCEPT ![f].pc = "submitted", ![f].attempts = @ + 1]
            /\ frameStates' = UpdateFrameStates(frameStates, {f},
                                [progress |-> IF unit'[f] = "exec" THEN 60 ELSE 30])
            /\ UNCHANGED <<progress, isPaused, isProcessing, failedTasks, runs, cache>>

\* analyzeFrame after submitRequest settled: the insert into the cache on a
\* result, the catch blocks on a rejection.  getFrameState reads the frame
\* states of the render its run started in; no other live run works on the
\* frame, so that its retryCount there is the current one.
TaskContinues ==
  /\ CallerContinues
  /\ LET f == Head(microtasks)
     IN IF promise[f] = "resolved"
          THEN /\ task' = [task EXCEPT ![f].pc = "store"]
               /\ UNCHANGED <<progress, isPaused, isProcessing, failedTasks, runs, cache,
                              frameStates>>
          ELSE /\ ItemDone(f, FALSE)
               /\ frameStates' = UpdateFrameStates(frameStates, {f},
                                   [error |-> promise[f],
                                    retryCount |-> frameStates[f].retryCount + 1,
                                    progress |-> 0])
               /\ UNCHANGED cache

\* StoreReturns as it would be if an insert that fails failed the item.
StoreReturnsOrFails(f, stored) ==
  /\ task[f].pc = "store"
  /\ cache' = IF stored THEN cache \cup {Fingerprint(f)} ELSE cache
  /\ ItemDone(f, stored)
  /\ frameStates' = UpdateFrameStates(frameStates, {f},
                      [retryCount |-> 0, isFromCache |-> FALSE, progress |-> 100])
  /\ UNCHANGED rmVars

\* analyzeFrame after the insert into the cache, which stored the row or failed.
StoreReturns(f, stored) ==
  /\ task[f].pc = "store"
  /\ cache' = IF stored THEN cache \cup {Fingerprint(f)} ELSE cache
  /\ ItemDone(f, TRUE)
  /\ frameStates' = UpdateFrameStates(frameStates, {f},
                      [retryCount |-> 0, isFromCache |-> FALSE, progress |-> 100])
  /\ UNCHANGED rmVars

\* processFrames calls processBatch for the next batch.
StartNext(r) ==
  /\ runs' = [runs EXCEPT ![r].i = @ + 1, ![r].pc = "batch"]
  /\ task' = Dispatch(task, runs[r].batches[runs[r].i + 1], r)
  /\ frameStates' = Analyzing(frameStates, runs[r].batches[runs[r].i + 1])
  /\ UNCHANGED isProcessing

\* The inter-batch delay is over: the top of the loop for the next batch.
DelayElapsed(r) ==
  /\ runs[r].pc = "delay"
  /\ IF isPaused
       THEN IF isProcessing
              THEN /\ progress' = [progress EXCEPT !.phase = "paused"]
                   /\ runs' = [runs EXCEPT ![r].pc = "paused"]
                   /\ UNCHANGED <<isProcessing, task, frameStates>>
              ELSE EndRun(r, progress) /\ UNCHANGED <<task, frameStates>>
       ELSE StartNext(r) /\ UNCHANGED progress
  /\ UNCHANGED <<isPaused, failedTasks, cache, rmVars>>

\* The one-second poll of a paused run finds the pause or the run over.
PollPaused(r) ==
  /\ runs[r].pc = "paused"
  /\ ~(isPaused /\ isProcessing)
  /\ IF isProcessing
       THEN StartNext(r) /\ progress' = [progress EXCEPT !.phase = "processing"]
       ELSE EndRun(r, progress) /\ UNCHANGED <<task, frameStates>>
  /\ UNCHANGED <<isPaused, failedTasks, cache, rmVars>>

\* TickMs pass, for the breaker states the runs closed over as well.
TickProcessor ==
  /\ Tick
  /\ runs' = [r \in DOMAIN runs |-> [runs[r] EXCEPT !.cb = Age(@)]]
  /\ UNCHANGED <<progress, isPaused, isProcessing, failedTasks, task, cache,
                 frameStates>>

InitSmart ==
  /\ InitManager(Frames, ConcurrencyLimits(IdleProgress.qualityProfile))
  /\ InitProcessor
  /\ InitBudget
  /\ InitOtherHooks

\* The processor under every user operation, its units of work settling before
\* their timeout: a promise is then settled when its request leaves the queue
\* or its unit of work ends, so that the caller's continuation finds every
\* request over and there is no Retire step.
NextSmart ==
  \/ TaskContinues /\ UNCHANGED <<tbVars, otherHooks>>
  \/ \E frames \in FrameInputs, q \in Profiles :
       Ready /\ Explored(frames, MaxFrameRequests) /\ processFrames(frames, q) /\ UNCHANGED <<tbVars, otherHooks>>
  \/ Ready /\ (isProcessing \/ Explored(FailedFrames, MaxFrameRequests)) /\ retryFailedFrames /\ UNCHANGED <<tbVars, otherHooks>>
  \/ Ready /\ pauseProcessing /\ UNCHANGED <<tbVars, otherHooks>>
  \/ Ready /\ resumeProcessing /\ UNCHANGED rmVars /\ UNCHANGED <<tbVars, otherHooks>>
  \/ Ready /\ stopProcessing /\ UNCHANGED <<tbVars, otherHooks>>
  \/ \E f \in Frames : Ready /\ LookupReturns(f) /\ UNCHANGED <<tbVars, otherHooks>>
  \/ \E f \in Frames, stored \in BOOLEAN : Ready /\ StoreReturns(f, stored) /\ UNCHANGED <<tbVars, otherHooks>>
  \/ \E r \in RunIds : Ready /\ DelayElapsed(r) /\ UNCHANGED <<tbVars, otherHooks>>
  \/ \E r \in RunIds : Ready /\ PollPaused(r) /\ UNCHANGED <<tbVars, otherHooks>>
  \/ \E f \in Frames, ok \in BOOLEAN, kind \in ErrKinds :
       Ready /\ ExecSettles(f, ok, kind) /\ UnitReturns(f, ok) /\ UNCHANGED <<tbVars, otherHooks>>
  \/ Ready /\ processQueue /\ UnitBegins /\ UNCHANGED <<tbVars, otherHooks>>
  \/ \E f \in Frames, ok \in BOOLEAN : Ready /\ QueuedSettles(f, ok) /\ UnitReturns(f, ok) /\ UNCHANGED <<tbVars, otherHooks>>

SpecSmart == InitSmart /\ [][NextSmart]_vars

\* The steps the browser and the network take on their own.
Continue ==
  \/ TaskContinues /\ UNCHANGED <<tbVars, otherHooks>>
  \/ \E f \in Frames : Retire(f) /\ UNCHANGED <<spVars, tbVars, otherHooks>>
  \/ \E f \in Frames : Ready /\ LookupReturns(f) /\ UNCHANGED <<tbVars, otherHooks>>
  \/ \E f \in Frames, stored \in BOOLEAN : Ready /\ StoreReturns(f, stored) /\ UNCHANGED <<tbVars, otherHooks>>
  \/ \E r \in RunIds : Ready /\ DelayElapsed(r) /\ UNCHANGED <<tbVars, otherHooks>>
  \/ Ready /\ processQueue /\ UnitBegins /\ UNCHANGED <<tbVars, otherHooks>>

UnitSettles ==
  \/ \E f \in Frames, ok \in BOOLEAN, kind \in ErrKinds :
       Ready /\ ExecSettles(f, ok, kind) /\ UnitReturns(f, ok) /\ UNCHANGED <<tbVars, otherHooks>>
  \/ \E f \in Frames, ok \in BOOLEAN : Ready /\ QueuedSettles(f, ok) /\ UnitReturns(f, ok) /\ UNCHANGED <<tbVars, otherHooks>>

\* The processor left to run (no pause, no stop), with time passing and
\* requests timing out.
NextFair ==
  \/ TaskContinues /\ UNCHANGED <<tbVars, otherHooks>>
  \/ \E f \in Frames : Retire(f) /\ UNCHANGED <<spVars, tbVars, otherHooks>>
  \/ \E frames \in FrameInputs, q \in Profiles :
       Ready /\ Explored(frames, MaxFrameRequests) /\ processFrames(frames, q) /\ UNCHANGED <<tbVars, otherHooks>>
  \/ Ready /\ (isProcessing \/ Explored(FailedFrames, MaxFrameRequests)) /\ retryFailedFrames /\ UNCHANGED <<tbVars, otherHooks>>
  \/ \E f \in Frames : Ready /\ LookupReturns(f) /\ UNCHANGED <<tbVars, otherHooks>>
  \/ \E f \in Frames, stored \in BOOLEAN : Ready /\ StoreReturns(f, stored) /\ UNCHANGED <<tbVars, otherHooks>>
  \/ \E r \in RunIds : Ready /\ DelayElapsed(r) /\ UNCHANGED <<tbVars, otherHooks>>
  \/ \E f \in Frames, ok \in BOOLEAN, kind \in ErrKinds :
       Ready /\ ExecSettles(f, ok, kind) /\ UnitReturns(f, ok) /\ UNCHANGED <<tbVars, otherHooks>>
  \/ Ready /\ processQueue /\ UnitBegins /\ UNCHANGED <<tbVars, otherHooks>>
  \/ \E f \in Frames, ok \in BOOLEAN : Ready /\ QueuedSettles(f, ok) /\ UnitReturns(f, ok) /\ UNCHANGED <<tbVars, otherHooks>>
  \/ \E f \in Frames : Ready /\ RequestTimeout(f) /\ UNCHANGED <<spVars, tbVars, otherHooks>>
  \/ Ready /\ TickProcessor /\ UNCHANGED <<tbVars, otherHooks>>

\* Tasks that are ready run, and every network call ends.
SpecFair ==
  /\ InitSmart
  /\ [][NextFair]_vars
  /\ WF_vars(Continue)
  /\ WF_vars(UnitSettles)

\* The processor with the upstream service down: every unit of work fails.
\* The frames are submitted with the profile that runs them side by side, so
\* that every failure is reported to the breaker.
OutageInputs == {SubSeq(AllFrames, 1, 3)}

NextOutage ==
  \/ TaskContinues /\ UNCHANGED <<tbVars, otherHooks>>
  \/ \E frames \in OutageInputs :
       Ready /\ Explored(frames, MaxOutageRequests) /\ processFrames(frames, "aggressive") /\ UNCHANGED <<tbVars, otherHooks>>
  \/ Ready /\ (isProcessing \/ Explored(FailedFrames, MaxOutageRequests)) /\ retryFailedFrames /\ UNCHANGED <<tbVars, otherHooks>>
  \/ \E f \in Frames : Ready /\ LookupReturns(f) /\ UNCHANGED <<tbVars, otherHooks>>
  \/ \E f \in Frames : Ready /\ ExecSettles(f, FALSE, "plain") /\ UnitReturns(f, FALSE) /\ UNCHANGED <<tbVars, otherHooks>>
  \/ Ready /\ processQueue /\ UnitBegins /\ UNCHANGED <<tbVars, otherHooks>>

SpecOutage == InitSmart /\ [][NextOutage]_vars

\* setQualityProfile, with the effect on progress.qualityProfile that follows
\* the render: requestManager.setMaxConcurrency(concurrencyLimits[profile]).
setQualityProfile(profile) ==
  /\ progress' = [progress EXCEPT !.qualityProfile = profile]
  /\ setMaxConcurrency(ConcurrencyLimits(profile))
  /\ UNCHANGED <<isProcessing, isPaused, failedTasks, runs, task, cache, frameStates>>

\* The processor with the profile chosen per run and changed at any moment.
NextProfile ==
  \/ TaskContinues /\ UNCHANGED <<tbVars, otherHooks>>
  \/ \E frames \in FrameInputs, q \in AllProfiles :
       Ready /\ Explored(frames, MaxFrameRequests) /\ processFrames(frames, q) /\ UNCHANGED <<tbVars, otherHooks>>
  \/ \E profile \in AllProfiles : Ready /\ setQualityProfile(profile) /\ UNCHANGED <<tbVars, otherHooks>>
  \/ \E f \in Frames : Ready /\ LookupReturns(f) /\ UNCHANGED <<tbVars, otherHooks>>
  \/ \E f \in Frames, stored \in BOOLEAN : Ready /\ StoreReturns(f, stored) /\ UNCHANGED <<tbVars, otherHooks>>
  \/ \E r \in RunIds : Ready /\ DelayElapsed(r) /\ UNCHANGED <<tbVars, otherHooks>>
  \/ \E f \in Frames, ok \in BOOLEAN :
       Ready /\ ExecSettles(f, ok, "plain") /\ UnitReturns(f, ok) /\ UNCHANGED <<tbVars, otherHooks>>
  \/ Ready /\ processQueue /\ UnitBegins /\ UNCHANGED <<tbVars, otherHooks>>

SpecProfile == InitSmart /\ [][NextProfile]_vars

\* ------------------------------------------------ the token budget manager
\* The rate-limit headers updateTokenUsage is called with: the remaining tokens
\* and the seconds until the reset, each of which may be absent.
\* A header is the sequence of its value, empty when the header is absent.
RemainingInputs == {<<>>, <<10000>>, <<12000>>, <<16000>>, <<220000>>}
ResetInputs == {<<>>, <<30>>}

\* updateTokenUsage(headers), of which the model keeps the fields the budget
\* advice is computed from.
updateTokenUsage(remainingHeader, resetHeader) ==
  LET remaining == IF remainingHeader = <<>> THEN 0 ELSE remainingHeader[1]
      resetTime == IF resetHeader = <<>> THEN 0 ELSE now + resetHeader[1] * 1000
      tokensUsed == IF ~tokenUsage.known THEN 0
                    ELSE Max(0, tokenUsage.remainingTokens - remaining)
      tokensPerMinute == IF ~tokenUsage.known THEN tokensUsed
                         ELSE tokenUsage.tokensPerMinute + tokensUsed
  IN /\ tokensPerMinute <= MaxTokensPerMinute
     /\ tokenUsage' = [known |-> TRUE, tokensPerMinute |-> tokensPerMinute,
                       remainingTokens |-> remaining, resetTime |-> resetTime]
     /\ UNCHANGED planned

\* The delay processFrames sleeps between two batches, adaptiveDelayMs being
\* the one of the progress record it closed over.
InterBatchDelay(adaptiveDelayMs) ==
  LET budgetStatus == checkBudgetStatus(ANALYSIS_TOKENS_PER_FRAME)
  IN IF ~budgetStatus.canProceed THEN budgetStatus.suggestedDelay ELSE adaptiveDelayMs

\* estimateTokensForBatch that charges the same with and without descriptions.
estimateTokensForBatchFlat(frameCount, hasDescriptions) ==
  LET analysisTokens == frameCount * ANALYSIS_TOKENS_PER_FRAME
      promptTokens == frameCount * PROMPT_TOKENS_PER_FRAME
      totalTokens == analysisTokens + promptTokens
  IN [analysisTokens |-> analysisTokens, promptTokens |-> promptTokens,
      totalTokens |-> totalTokens, estimatedCost |-> totalTokens * 15]

\* estimateTokensForBatch(frameCount, hasDescriptions).  estimatedCost,
\* (totalTokens / 1000) * 0.00015 dollars, is counted in 1e-8 dollars.
estimateTokensForBatch(frameCount, hasDescriptions) ==
  LET analysisTokens == IF hasDescriptions THEN 0
                        ELSE frameCount * ANALYSIS_TOKENS_PER_FRAME
      promptTokens == frameCount * (IF hasDescriptions THEN 200
                                    ELSE PROMPT_TOKENS_PER_FRAME)
      totalTokens == analysisTokens + promptTokens
  IN [analysisTokens |-> analysisTokens, promptTokens |-> promptTokens,
      totalTokens |-> totalTokens, estimatedCost |-> totalTokens * 15]

\* The planning of processFrames for a list of n tasks, on its own: the token
\* estimate, the batches of createBatches (none when the batch size is 0 and
\* its loop does not end) and the delay slept after a batch that is not the
\* last.  hasDescriptions: some task comes with an image description.
planBatches(n, hasDescriptions, qualityProfile) ==
  LET tasks == [i \in 1..n |-> i]
      size == BatchSize(n, qualityProfile)
  IN /\ planned' = [tasks |-> n, qualityProfile |-> qualityProfile,
                    hasDescriptions |-> hasDescriptions,
                    tokenEstimate |-> estimateTokensForBatch(n, hasDescriptions),
                    batchSize |-> size,
                    batches |-> IF size >= 1 THEN createBatches(tasks, qualityProfile)
                                ELSE <<>>,
                    delay |-> InterBatchDelay(progress.adaptiveDelayMs)]
     /\ UNCHANGED tokenUsage

\* getRemainingBudget().
getRemainingBudget ==
  IF ~tokenUsage.known
    THEN [tokens |-> TOKENS_PER_MINUTE_LIMIT, timeToReset |-> 0]
    ELSE [tokens |-> Max(0, tokenUsage.remainingTokens - TOKEN_SAFETY_BUFFER),
          timeToReset |-> Max(0, tokenUsage.resetTime - now)]

NextBudget ==
  \/ \E remaining \in RemainingInputs, reset \in ResetInputs :
       updateTokenUsage(remaining, reset) /\ UNCHANGED <<rmVars, spVars, otherHooks>>
  \/ \E n \in 1..MaxTasks, q \in AllProfiles :
       planBatches(n, FALSE, q) /\ UNCHANGED <<rmVars, spVars, otherHooks>>

SpecBudget == InitSmart /\ [][NextBudget]_vars

\* Planning as the application does it: without usage data.
NextPlanning ==
  \E n \in 1..MaxFrameCount, hasDescriptions \in BOOLEAN, q \in AllProfiles :
    planBatches(n, hasDescriptions, q) /\ UNCHANGED <<rmVars, spVars, otherHooks>>

SpecPlanning == InitSmart /\ [][NextPlanning]_vars

\* ------------------------------------------------ throttling of the batches
\* shouldThrottle().
shouldThrottle ==
  IF ~tokenUsage.known THEN FALSE
  ELSE LET timeSinceLastRequest == clock - lastRequestTime
           isHighUsage == tokenUsage.tokensPerMinute * 10 > TOKENS_PER_MINUTE_LIMIT * 8
           requiredDelay == IF isHighUsage THEN 3000 ELSE 1000
       IN timeSinceLastRequest < requiredDelay

\* shouldThrottle with the time of the last dispatch for lastRequestTime.
shouldThrottleSinceDispatch ==
  IF ~tokenUsage.known THEN FALSE
  ELSE LET timeSinceLastRequest == clock - issuedAt
           isHighUsage == tokenUsage.tokensPerMinute * 10 > TOKENS_PER_MINUTE_LIMIT * 8
           requiredDelay == IF isHighUsage THEN 3000 ELSE 1000
       IN timeSinceLastRequest < requiredDelay

\* processBatch up to the dispatch of its tasks: the sleep of adaptiveDelayMs
\* when shouldThrottle() says so, then the requests of the batch are issued.
\* Nothing assigns lastRequestTime.current.
processBatch ==
  LET delay == IF shouldThrottle THEN progress.adaptiveDelayMs ELSE 0
  IN /\ clock + delay <= StartTime + MaxElapsed
     /\ throttled' = shouldThrottle
     /\ clock' = clock + delay
     /\ issuedAt' = clock + delay
     /\ UNCHANGED lastRequestTime

\* Time passes.
ClockTick ==
  /\ clock + 500 <= StartTime + MaxElapsed
  /\ clock' = clock + 500
  /\ UNCHANGED <<lastRequestTime, issuedAt, throttled>>

NextThrottle ==
  \/ \E remaining \in RemainingInputs, reset \in ResetInputs :
       updateTokenUsage(remaining, reset) /\ UNCHANGED <<rmVars, spVars, otherHooks>>
  \/ processBatch /\ UNCHANGED <<rmVars, spVars, tbVars, baVars, fcVars, sqVars, dpVars>>
  \/ ClockTick /\ UNCHANGED <<rmVars, spVars, tbVars, baVars, fcVars, sqVars, dpVars>>

SpecThrottle == InitSmart /\ [][NextThrottle]_vars

\* ------------------------------------------------ the cache table and its expiry
\* The SELECT policy of frame_analysis_cache: USING (expires_at > now()).
Visible(row) == row.state = "fresh"

\* The INSERT of a row for image_hash h: the UNIQUE constraint of image_hash
\* refuses it while any row of that hash exists, visible or not.
Insert(rows, h, description) ==
  IF rows[h].state = "none"
    THEN [rows EXCEPT ![h] = [state |-> "fresh", description |-> description]]
    ELSE rows

\* analyzeFrame: the cache lookup returns.  A visible row is a hit and the call
\* returns its description; otherwise the request is submitted.
CacheLookup(item) ==
  LET imageHash == image_hash(item)
  IN /\ lookup[item].pc = "idle"
     /\ lookup' = [lookup EXCEPT ![item] =
                     IF Visible(cacheRows[imageHash])
                       THEN [pc |-> "hit", result |-> cacheRows[imageHash].description,
                             expired |-> FALSE]
                       ELSE [pc |-> "request", result |-> 0,
                             expired |-> cacheRows[imageHash].state = "expired"]]
     /\ UNCHANGED cacheRows

\* The request returns the description of the image; analyzeFrame then inserts
\* the row.
Recomputed(item) ==
  /\ lookup[item].pc = "request"
  /\ lookup' = [lookup EXCEPT ![item].pc = "insert", ![item].result = item]
  /\ UNCHANGED cacheRows

\* The insert returns (its error, if any, is not read) and the call returns.
InsertReturns(item) ==
  /\ lookup[item].pc = "insert"
  /\ cacheRows' = Insert(cacheRows, image_hash(item), lookup[item].result)
  /\ lookup' = [lookup EXCEPT ![item].pc = "stored"]

\* The caller has the description.
LookupCallEnds(item) ==
  /\ lookup[item].pc \in {"hit", "stored"}
  /\ lookup' = [lookup EXCEPT ![item] = NoLookup]
  /\ UNCHANGED cacheRows

\* 24 hours have passed since the row of h was created.
Expires(h) ==
  /\ cacheRows[h].state = "fresh"
  /\ cacheRows' = [cacheRows EXCEPT ![h].state = "expired"]
  /\ UNCHANGED lookup

\* cleanup_expired_frame_cache(): DELETE ... WHERE expires_at < now().
cleanup_expired_frame_cache ==
  /\ cacheRows' = [h \in Hashes |-> IF cacheRows[h].state = "expired" THEN NoRow
                                     ELSE cacheRows[h]]
  /\ UNCHANGED lookup

NextCache ==
  \/ \E item \in Items : CacheLookup(item) /\ UNCHANGED <<rmVars, spVars, tbVars, baVars, thVars, sqVars, dpVars>>
  \/ \E item \in Items : Recomputed(item) /\ UNCHANGED <<rmVars, spVars, tbVars, baVars, thVars, sqVars, dpVars>>
  \/ \E item \in Items : InsertReturns(item) /\ UNCHANGED <<rmVars, spVars, tbVars, baVars, thVars, sqVars, dpVars>>
  \/ \E item \in Items : LookupCallEnds(item) /\ UNCHANGED <<rmVars, spVars, tbVars, baVars, thVars, sqVars, dpVars>>
  \/ \E h \in Hashes : Expires(h) /\ UNCHANGED <<rmVars, spVars, tbVars, baVars, thVars, sqVars, dpVars>>
  \/ cleanup_expired_frame_cache /\ UNCHANGED <<rmVars, spVars, tbVars, baVars, thVars, sqVars, dpVars>>

SpecCache == Init /\ [][NextCache]_vars

\* ------------------------------------------------ SequentialRequestQueue
\* The model leaves out requestDelay, consecutiveFailures and activeRequests:
\* they set the length of the delay between two functions and nothing reads
\* activeRequests.

\* The while condition of process().
GoesOn(q) == q.queue # <<>> /\ ~q.cancelled /\ ~q.paused

\* One turn of the while loop of process(), run by the call l on the queue and
\* the jobs as the task has left them so far: the next item is shifted and its
\* function called, or the loop ends and isProcessing is set to false.
LoopTurn(q, jobs, l) ==
  IF GoesOn(q)
    THEN /\ queueRef' = [q EXCEPT !.queue = Tail(@)]
         /\ loops' = [loops EXCEPT ![l] = [pc |-> "fn", item |-> Head(q.queue)]]
         /\ job' = [jobs EXCEPT ![Head(q.queue)].fn = "running"]
         /\ started' = Append(started, Head(q.queue))
    ELSE /\ queueRef' = [q EXCEPT !.isProcessing = FALSE]
         /\ loops' = [loops EXCEPT ![l] = NoLoop]
         /\ job' = jobs
         /\ UNCHANGED started

\* process(): returns at once when a loop is believed to run or the queue is
\* empty, cancelled or paused.
process(q, jobs) ==
  IF q.isProcessing \/ ~GoesOn(q)
    THEN queueRef' = q /\ job' = jobs /\ UNCHANGED <<loops, started>>
    ELSE /\ \E l \in LoopIds : loops[l].pc = "off"
         /\ LoopTurn([q EXCEPT !.isProcessing = TRUE], jobs,
                     CHOOSE l \in LoopIds : loops[l].pc = "off")

\* add(fn, id).
add(id) ==
  /\ job[id].promise = "none"
  /\ IF queueRef.cancelled
       THEN /\ job' = [job EXCEPT ![id].promise = "rejected"]
            /\ UNCHANGED <<queueRef, loops, started>>
       ELSE process([queueRef EXCEPT !.queue = Append(@, id)],
                    [job EXCEPT ![id].promise = "pending"])

\* stop(id): a queued item is removed and its promise rejected.
stop(id) ==
  /\ job[id].promise # "none"
  /\ IF \E i \in 1..Len(queueRef.queue) : queueRef.queue[i] = id
       THEN /\ queueRef' = [queueRef EXCEPT !.queue = SelectSeq(@, LAMBDA x : x # id)]
            /\ job' = [job EXCEPT ![id].promise = "rejected"]
       ELSE UNCHANGED <<queueRef, job>>
  /\ UNCHANGED <<loops, started>>

\* The function of the item the call l of process() awaits settles: the
\* promise of the item is settled, then the delay before the next item starts
\* or the loop ends.
FnEnds(l, ok) ==
  /\ loops[l].pc = "fn"
  /\ LET settled == [job EXCEPT ![loops[l].item] =
                       [fn |-> "finished",
                        promise |-> IF @.promise # "pending" THEN @.promise
                                    ELSE IF ok THEN "resolved" ELSE "rejected"]]
     IN IF GoesOn(queueRef)
          THEN /\ loops' = [loops EXCEPT ![l] = [pc |-> "delay", item |-> 0]]
               /\ job' = settled
               /\ UNCHANGED <<queueRef, started>>
          ELSE LoopTurn(queueRef, settled, l)

\* The delay between two functions is over.
QueueDelayEnds(l) ==
  /\ loops[l].pc = "delay"
  /\ LoopTurn(queueRef, job, l)

pause ==
  /\ ~queueRef.paused
  /\ queueRef' = [queueRef EXCEPT !.paused = TRUE]
  /\ UNCHANGED <<loops, job, started>>

resume ==
  /\ queueRef.paused
  /\ process([queueRef EXCEPT !.paused = FALSE], job)

cancel ==
  /\ ~queueRef.cancelled
  /\ queueRef' = [queueRef EXCEPT !.cancelled = TRUE, !.queue = <<>>]
  /\ job' = [id \in JobIds |->
               IF \E i \in 1..Len(queueRef.queue) : queueRef.queue[i] = id
                 THEN [job[id] EXCEPT !.promise = "rejected"] ELSE job[id]]
  /\ UNCHANGED <<loops, started>>

\* reset(), called at the start of analyzeAllFrames and generateAllPrompts.
reset ==
  /\ queueRef # NewQueue
  /\ queueRef' = NewQueue
  /\ UNCHANGED <<loops, job, started>>

NextQueue ==
  \/ \E id \in JobIds : add(id) /\ UNCHANGED <<rmVars, spVars, tbVars, baVars, thVars, fcVars, dpVars>>
  \/ \E id \in JobIds : stop(id) /\ UNCHANGED <<rmVars, spVars, tbVars, baVars, thVars, fcVars, dpVars>>
  \/ \E l \in LoopIds, ok \in BOOLEAN :
       FnEnds(l, ok) /\ UNCHANGED <<rmVars, spVars, tbVars, baVars, thVars, fcVars, dpVars>>
  \/ \E l \in LoopIds : QueueDelayEnds(l) /\ UNCHANGED <<rmVars, spVars, tbVars, baVars, thVars, fcVars, dpVars>>
  \/ pause /\ UNCHANGED <<rmVars, spVars, tbVars, baVars, thVars, fcVars, dpVars>>
  \/ resume /\ UNCHANGED <<rmVars, spVars, tbVars, baVars, thVars, fcVars, dpVars>>
  \/ cancel /\ UNCHANGED <<rmVars, spVars, tbVars, baVars, thVars, fcVars, dpVars>>
  \/ reset /\ UNCHANGED <<rmVars, spVars, tbVars, baVars, thVars, fcVars, dpVars>>

SpecQueue == Init /\ [][NextQueue]_vars

\* The awaits of process() return: a function that was called settles, and the
\* timer of the delay between two functions fires.
LoopRuns ==
  \/ \E l \in LoopIds, ok \in BOOLEAN :
       FnEnds(l, ok) /\ UNCHANGED <<rmVars, spVars, tbVars, baVars, thVars, fcVars, dpVars>>
  \/ \E l \in LoopIds : QueueDelayEnds(l) /\ UNCHANGED <<rmVars, spVars, tbVars, baVars, thVars, fcVars, dpVars>>

SpecQueueLive == Init /\ [][NextQueue]_vars /\ WF_vars(LoopRuns)

\* ------------------------------------------------ withRetry (batch analysis)
\* The errors an attempt can end with: those of the unit of work, the 30 s
\* timeout of the race, and the cancellation found before the unit is invoked.
FnErrors == {"plain", "rate limit"}

\* The values of maxRetries withRetry is called with.
MaxRetriesInputs == 1..DefaultMaxRetries

\* The attempt after which the loop of withRetry breaks out.
LastAttemptOneEarlier(call) == call.attempt + 1 >= call.maxRetries

LastAttempt(call) == call.attempt = call.maxRetries

\* The catch block of withRetry: lastError = error, then either the break and
\* the throw of lastError, or the sleep before the next attempt.
AttemptFails(call, error) ==
  LET caught == [call EXCEPT !.lastError = error,
                             !.outcomes = Append(@, error)]
  IN [caught EXCEPT !.pc = IF LastAttempt(call) THEN "rejected" ELSE "sleep"]

\* The try block up to its await: the test of the abort signal, then fn().
AttemptBegins(call) ==
  IF aborted THEN AttemptFails(call, "cancelled")
  ELSE [call EXCEPT !.pc = "call", !.calls = @ + 1]

withRetry(maxRetries) ==
  /\ retryCall.pc = "idle"
  /\ retryCall' = AttemptBegins([NoCall EXCEPT !.maxRetries = maxRetries])
  /\ UNCHANGED aborted

\* The promise of fn settles before the timeout of the race.
FnSettles(ok, error) ==
  /\ retryCall.pc = "call"
  /\ retryCall' = IF ok THEN [retryCall EXCEPT !.pc = "resolved",
                                               !.outcomes = Append(@, "ok")]
                  ELSE AttemptFails(retryCall, error)
  /\ UNCHANGED aborted

\* The timeout of the race fires first: 'Request timeout'.
RaceTimeout ==
  /\ retryCall.pc = "call"
  /\ retryCall' = AttemptFails(retryCall, "timeout")
  /\ UNCHANGED aborted

\* The sleep before the next attempt ends: attempt++ and the next iteration.
SleepEnds ==
  /\ retryCall.pc = "sleep"
  /\ retryCall' = AttemptBegins([retryCall EXCEPT !.attempt = @ + 1])
  /\ UNCHANGED aborted

\* cancelBatchOperation: abortControllerRef.current.abort().
abort ==
  /\ ~aborted
  /\ aborted' = TRUE
  /\ UNCHANGED retryCall

\* The caller has the result or the error; the next batch operation installs a
\* new AbortController.
CallReturns ==
  /\ retryCall.pc \in {"resolved", "rejected"}
  /\ retryCall' = NoCall
  /\ aborted' = FALSE

NextRetry ==
  \/ \E maxRetries \in MaxRetriesInputs : withRetry(maxRetries) /\ UNCHANGED <<rmVars, spVars, tbVars, thVars, fcVars, sqVars, dpVars>>
  \/ \E ok \in BOOLEAN, error \in FnErrors : FnSettles(ok, error) /\ UNCHANGED <<rmVars, spVars, tbVars, thVars, fcVars, sqVars, dpVars>>
  \/ RaceTimeout /\ UNCHANGED <<rmVars, spVars, tbVars, thVars, fcVars, sqVars, dpVars>>
  \/ SleepEnds /\ UNCHANGED <<rmVars, spVars, tbVars, thVars, fcVars, sqVars, dpVars>>
  \/ abort /\ UNCHANGED <<rmVars, spVars, tbVars, thVars, fcVars, sqVars, dpVars>>
  \/ CallReturns /\ UNCHANGED <<rmVars, spVars, tbVars, thVars, fcVars, sqVars, dpVars>>

SpecRetry == Init /\ [][NextRetry]_vars

\* ------------------------------------------------ the direct processor
\* useDirectAIProcessor keeps a state per frame and retries on its own.  Every
\* callback of the hook reads frameStates, retryTimeouts and countdownIntervals
\* through getFrameState and the constants of the render that created it, and
\* writes through updaters that see the latest state.  analyzeFrame and
\* generatePrompt have the same shape; the steps below are those of
\* analyzeFrame (isGeneratingPrompt stands where isAnalyzing does in the other).

\* scheduleRetry's delay, in ms.
retryDelay(retryCount) == Min(45000 * 2^retryCount, 180000)

\* The cleanup of the effect on [retryTimeouts, countdownIntervals], which
\* React runs at the commit that gives either map a new identity.  It clears
\* every timer of the maps of the render before; setRetryTimeouts and
\* setCountdownIntervals put a new timer there with prev.set(...), which
\* writes into the map of the render before, before they copy it.
EffectCleanup(timeouts) ==
  [f \in DOMAIN timeouts |-> IF timeouts[f] = "armed" THEN "cleared" ELSE timeouts[f]]

\* The caller starts analyzeFrame(frameIndex, imageData) of the latest render.
analyzeFrame(frameIndex) ==
  /\ request[frameIndex].pc = "idle"
  /\ directFrameStates[frameIndex].retryCount <= MaxRetryCount
  /\ directFrameStates' = [directFrameStates EXCEPT ![frameIndex].isAnalyzing = TRUE,
                                                    ![frameIndex].error = "null"]
  /\ request' = [request EXCEPT ![frameIndex] =
                   [pc |-> "invoke",
                    currentRetryCount |-> directFrameStates[frameIndex].retryCount,
                    failed |-> FALSE]]
  /\ cleared' = [cleared EXCEPT ![frameIndex] = FALSE]
  /\ UNCHANGED retryTimeouts

\* supabase.functions.invoke('analyze-frame') returns to the call, with or
\* without an error (a rejection takes the catch block, which does the same).
InvokeReturns(frameIndex, ok) ==
  LET currentRetryCount == request[frameIndex].currentRetryCount
  IN /\ request[frameIndex].pc = "invoke"
     /\ IF ok
        THEN /\ directFrameStates' = [directFrameStates EXCEPT ![frameIndex].isAnalyzing = FALSE,
                                                               ![frameIndex].error = "null"]
             /\ request' = [request EXCEPT ![frameIndex].pc = "idle"]
        ELSE /\ directFrameStates' =
                  [directFrameStates EXCEPT
                     ![frameIndex].isAnalyzing = FALSE,
                     ![frameIndex].retryCount = currentRetryCount + 1,
                     ![frameIndex].error =
                        IF currentRetryCount < 3 THEN @ ELSE "Max retries reached. Please try again later."]
             /\ request' = [request EXCEPT
                              ![frameIndex].pc = IF currentRetryCount < 3 THEN "setTimeout 0" ELSE "idle",
                              ![frameIndex].failed = TRUE]
     /\ UNCHANGED <<retryTimeouts, cleared>>

\* The setTimeout(() => scheduleRetry(...), 0) of the failed call runs, and
\* React commits the render its updates ask for.
scheduleRetry(frameIndex) ==
  LET retryCount == request[frameIndex].currentRetryCount
  IN /\ request[frameIndex].pc = "setTimeout 0"
     /\ directFrameStates' =
          [directFrameStates EXCEPT
             ![frameIndex].isWaitingToRetry = TRUE,
             ![frameIndex].retryCountdown = (retryDelay(retryCount) + 999) \div 1000,
             ![frameIndex].error = "null"]
     /\ retryTimeouts' = EffectCleanup([retryTimeouts EXCEPT ![frameIndex] = "armed"])
     /\ request' = [request EXCEPT ![frameIndex].pc = "idle"]
     /\ UNCHANGED cleared

clearFrameState(frameIndex) ==
  /\ directFrameStates' = [directFrameStates EXCEPT ![frameIndex] = DefaultDirectState]
  /\ retryTimeouts' = [retryTimeouts EXCEPT ![frameIndex] = "none"]
  /\ cleared' = [cleared EXCEPT ![frameIndex] = TRUE]
  /\ UNCHANGED request

NextDirect ==
  \/ \E frameIndex \in DirectFrames : analyzeFrame(frameIndex) /\ UNCHANGED <<rmVars, spVars, tbVars, baVars, thVars, fcVars, sqVars>>
  \/ \E frameIndex \in DirectFrames, ok \in BOOLEAN : InvokeReturns(frameIndex, ok) /\ UNCHANGED <<rmVars, spVars, tbVars, baVars, thVars, fcVars, sqVars>>
  \/ \E frameIndex \in DirectFrames : scheduleRetry(frameIndex) /\ UNCHANGED <<rmVars, spVars, tbVars, baVars, thVars, fcVars, sqVars>>
  \/ \E frameIndex \in DirectFrames : clearFrameState(frameIndex) /\ UNCHANGED <<rmVars, spVars, tbVars, baVars, thVars, fcVars, sqVars>>

SpecDirect == Init /\ [][NextDirect]_vars

\* ------------------------------------------------ properties, request manager
\* A unit of work reports a failure to the breaker: executeRequest's catch block
\* with an error that is not classified as a cancellation.
ReportsFailure(id) ==
  \E kind \in ErrKinds \ {"abortmsg"} : ExecSettles(id, FALSE, kind)

\* A unit of work reports a success to the breaker.
ReportsSuccess(id) ==
  \E kind \in ErrKinds : ExecSettles(id, TRUE, kind)

\* The unit of work of id ends, started by executeRequest or by processQueue.
UnitSucceeds(id) ==
  ReportsSuccess(id) \/ QueuedSettles(id, TRUE)

\* ... or fails with an error that is not classified as a cancellation.
UnitFails(id) ==
  ReportsFailure(id) \/ QueuedSettles(id, FALSE)

\* C1: the in-flight counter is never negative, and no unit of work starts
\* executing when that makes more units execute than the current limit allows.
C1_WithinLimit ==
  [][/\ currentConcurrency' >= 0
     /\ (Executing' \ Executing # {} => Cardinality(Executing') <= maxConcurrency')]_vars

\* C2: the breaker is never open with fewer than 5 failures counted; the failure
\* report that makes the count 5 opens it with nextRetryTime = now + 60000; a
\* success report closes it with the count back at 0.
C2_BreakerOpensAtThreshold ==
  /\ [](circuitBreaker.isOpen => circuitBreaker.failures >= CIRCUIT_BREAKER_THRESHOLD)
  /\ [][\A id \in Ids :
          /\ (ReportsFailure(id) /\ circuitBreaker.failures = CIRCUIT_BREAKER_THRESHOLD - 1
                => /\ circuitBreaker'.isOpen
                   /\ circuitBreaker'.failures = CIRCUIT_BREAKER_THRESHOLD
                   /\ circuitBreaker'.nextRetryTime = now + CIRCUIT_BREAKER_RESET_TIME)
          /\ (ReportsSuccess(id)
                => ~circuitBreaker'.isOpen /\ circuitBreaker'.failures = 0)]_vars

\* C2 witness: the breaker has just been opened by the fifth failure in a row.
C2_Opened ==
  /\ circuitBreaker.isOpen
  /\ circuitBreaker.failures = CIRCUIT_BREAKER_THRESHOLD
  /\ circuitBreaker.nextRetryTime = now + CIRCUIT_BREAKER_RESET_TIME

\* C3: a submitRequest made while the breaker is open and now < nextRetryTime
\* is rejected, and changes neither the in-flight counter, the pending queue,
\* the request records, totalRequests nor what executes.
C3_OpenBreakerRejects ==
  [][\A id \in Ids :
       (submitRequest(id) /\ circuitBreaker.isOpen /\ now < circuitBreaker.nextRetryTime)
         => /\ promise'[id] = "rej_circuit"
            /\ UNCHANGED <<currentConcurrency, pendingQueue, requests, totalRequests, unit>>]_vars

\* The breaker still counts the failures that opened it: no result and no reset
\* has reached it since.
StillTripped == circuitBreaker.failures >= CIRCUIT_BREAKER_THRESHOLD

\* C4: a submitRequest made while the breaker is open and now >= nextRetryTime
\* is admitted as the probe; when the unit of work of the probe succeeds the
\* breaker is closed with failures = 0, and when it fails the breaker is open
\* with nextRetryTime = now + 60000 (nothing else having reached the breaker
\* since the probe was admitted).
C4_ProbeDecides ==
  [][\A id \in Ids :
       /\ (submitRequest(id) /\ circuitBreaker.isOpen /\ now >= circuitBreaker.nextRetryTime
             /\ totalRequests < MaxRequests
             => promise'[id] = "pending")
       /\ (probe = id /\ StillTripped /\ UnitSucceeds(id)
             => ~circuitBreaker'.isOpen /\ circuitBreaker'.failures = 0)
       /\ (probe = id /\ StillTripped /\ UnitFails(id)
             => /\ circuitBreaker'.isOpen
                /\ circuitBreaker'.nextRetryTime = now + CIRCUIT_BREAKER_RESET_TIME)]_vars

\* The caller has cancelled the request of id (cancelRequest, cancelAllRequests)
\* and its unit of work, started by executeRequest, is still running.
CancelledRunning(id) == requests[id] = "cancelled" /\ unit[id] = "exec"

\* C13: the outcome of a request the caller cancelled is not reported to the
\* breaker: when its unit of work ends, returning or throwing, the failure
\* count and the open/closed state stay as they are.
C13_CancelledNotReported ==
  [][\A id \in Ids :
       (CancelledRunning(id) /\ \E ok \in BOOLEAN, kind \in ErrKinds : ExecSettles(id, ok, kind))
         => circuitBreaker' = circuitBreaker]_vars

\* The unit of work of id, started at once or from the pending queue, ends
\* with success (ok) or with an error that is not a cancellation.
UnitEnds(id, ok) ==
  \/ \E kind \in ErrKinds \ {"abortmsg"} : ExecSettles(id, ok, kind)
  \/ QueuedSettles(id, ok)

\* C23: a unit of work that ends releases its slot once and reports its
\* outcome to the circuit breaker: a success resets the failure count, a
\* failure that is not a cancellation increments it.
C23_ReleasedAndReported ==
  [][\A id \in Ids, ok \in BOOLEAN : UnitEnds(id, ok)
       => /\ currentConcurrency' = currentConcurrency - 1
          /\ circuitBreaker'.failures = IF ok THEN 0 ELSE circuitBreaker.failures + 1]_vars

\* The timeout timer of a request fires while its unit of work has not settled.
TimesOut(id) == unit[id] = "exec" /\ promise[id] = "pending" /\ RequestTimeout(id)

\* C24: a request whose unit of work has not settled when its timeout fires is
\* rejected with the timeout error, recorded as 'timeout', counted as one
\* failure by the circuit breaker, and holds its concurrency slot no longer.
C24_TimeoutEndsRequest ==
  [][\A id \in Ids : TimesOut(id)
       => /\ promise'[id] = "rej_timeout"
          /\ requests'[id] = "timeout"
          /\ circuitBreaker'.failures = circuitBreaker.failures + 1
          /\ currentConcurrency' = currentConcurrency - 1]_vars

\* The breaker is open and its cool-down has not elapsed.
Cooling == circuitBreaker.isOpen /\ now < circuitBreaker.nextRetryTime

\* C25: once the breaker has opened it keeps rejecting until the cool-down
\* has elapsed or resetCircuitBreaker is called: no other step, the success of
\* a request admitted earlier included, ends the rejection.
C25_OpenUntilCoolDownOrReset ==
  [][(Cooling /\ ~Cooling') => (resetCircuitBreaker \/ Tick)]_vars

\* The unit of work of id starts in this step.
UnitStarts(id) == unit[id] = "idle" /\ unit'[id] \in {"exec", "qexec"}

\* C26: requests that wait for a slot start in the order of their submission,
\* and no request starts while another is waiting in the pending queue, except
\* the one at the head of the queue.
C26_FifoNoOvertaking ==
  [][\A id \in Ids : (UnitStarts(id) /\ pendingQueue # <<>>) => id = Head(pendingQueue)]_vars

\* C27: every promise returned by submitRequest eventually settles, when every
\* unit of work that is started settles, also for a request that is waiting in
\* the pending queue when cancelRequest or cancelAllRequests is called.
C27_PromiseSettles ==
  \A id \in Ids : (promise[id] = "pending") ~> (promise[id] # "pending")

\* --------------------------------------------------- properties, processor
\* The item of frame f starts in this step: its batch is dispatched.
Starts(f) == task[f].pc = "none" /\ task'[f].pc = "lookup"

\* The upstream call of frame f starts in this step.
Invokes(f) == f \notin Executing /\ f \in Executing'

\* Frames f and g are items of the batch a run is processing.
SameBatch(f, g) ==
  \E r \in Live :
    runs[r].pc = "batch" /\ {f, g} \subseteq Range(runs[r].batches[runs[r].i])

\* C5: stopProcessing rejects the requests still queued, and from then on, as
\* long as processFrames is not called again, no batch is dispatched, no unit
\* of work is started and the phase stays 'idle'.
C5_StopIsFinal ==
  [][/\ (stopProcessing
          => /\ pendingQueue' = <<>>
             /\ \A f \in QueueIds(pendingQueue) : promise'[f] = "rej_cancelled"
             /\ progress'.phase = "idle")
     /\ (~isProcessing /\ ~isProcessing'
          => /\ \A f \in Frames : ~Starts(f) /\ ~Invokes(f)
             /\ (progress.phase = "idle" => progress'.phase = "idle"))]_vars

\* C6: pauseProcessing makes no dispatched item fail (it settles no promise);
\* while the processor stays paused no batch is dispatched; a run that leaves
\* the pause goes on with its next batch.
C6_PauseHoldsBatches ==
  [][/\ (pauseProcessing => promise' = promise)
     /\ (isPaused /\ isPaused' => \A f \in Frames : ~Starts(f))
     /\ \A r \in RunIds :
          (runs[r].pc = "paused" /\ runs'[r].pc = "batch")
            => runs'[r].i = runs[r].i + 1]_vars

\* C7: whenever the phase is 'complete', completedFrames + failedFrames, plus
\* the cancelled items, = totalFrames.  The progress record has no count of
\* cancelled items (an item that is cancelled is counted in failedFrames), so
\* the formula leaves their number open: the two counts never exceed
\* totalFrames.
C7_CountsAddUp ==
  progress.phase = "complete"
    => progress.completedFrames + progress.failedFrames <= progress.totalFrames

\* C8: among the items of one batch with the same fingerprint, the upstream
\* call is made for at most one: no such call starts while the call made for
\* another is executing, has returned a description, or has stored it.
C8_OneCallPerFingerprint ==
  [][\A f, g \in Frames :
       (f # g /\ Fingerprint(f) = Fingerprint(g) /\ SameBatch(f, g) /\ Invokes(g))
         => /\ f \notin Executing
            /\ task[f].pc # "store"
            /\ Fingerprint(f) \notin cache]_vars

\* C9: an item of a batch starts only when every item of the earlier batches
\* of its run has settled.
C9_BatchesInOrder ==
  [][\A f \in Frames :
       Starts(f)
         => LET run == runs'[task'[f].run]
            IN \A k \in 1..(run.i - 1) : \A g \in Range(run.batches[k]) : task[g].pc = "none"]_vars

\* C9 witness: the second batch is being processed after a first batch in which
\* an item failed and an item completed.
C9_SecondBatchRuns ==
  /\ runs[1].i = 2
  /\ runs[1].pc = "batch"
  /\ progress.failedFrames >= 1
  /\ progress.completedFrames >= 1

Rejected(f, kind) ==
  /\ microtasks # <<>>
  /\ Head(microtasks) = f
  /\ promise[f] = kind
  /\ TaskContinues

\* C11: an item whose unit of work failed is attempted again, up to 3 attempts,
\* before it is marked failed: when a failure of the unit of work reaches the
\* item and fewer than 3 attempts were made, the item is not counted in
\* failedFrames, not pushed to failedTasks, and stays in progress.
C11_RetriedBeforeFailed ==
  [][\A f \in Frames :
       (Rejected(f, "rej_error") /\ task[f].attempts < 3)
         => /\ progress'.failedFrames = progress.failedFrames
            /\ failedTasks' = failedTasks
            /\ task'[f].pc # "none"]_vars

\* C12: an item that submitRequest rejects because the breaker is open is marked
\* failed at once with the circuit-open error, its unit of work is not invoked,
\* and no attempt is consumed: its retryCount is not incremented.
C12_CircuitOpenFailsFast ==
  [][\A f \in Frames :
       Rejected(f, "rej_circuit")
         => /\ frameStates'[f].error = "rej_circuit"
            /\ progress'.failedFrames = progress.failedFrames + 1
            /\ task[f].attempts = 0
            /\ unit'[f] = "idle"
            /\ frameStates'[f].retryCount = frameStates[f].retryCount]_vars

\* C14: retryFailedFrames called when no task has failed changes nothing:
\* progress, the frame states, the failed list, the runs and their items and
\* the request manager stay as they are.
C14_RetryNothingIsNoOp ==
  [][(failedTasks = <<>> /\ retryFailedFrames) => UNCHANGED vars]_vars

\* C14 witness: a run has ended with every frame completed and none failed, the
\* state in which retryFailedFrames finds nothing to retry.
C14_NothingFailed ==
  /\ progress.phase = "complete"
  /\ ~isProcessing
  /\ failedTasks = <<>>
  /\ progress.completedFrames = NumFrames
  /\ progress.failedFrames = 0

\* The frames of the batches a run holds.
FramesOf(run) == UNION {Range(run.batches[k]) : k \in 1..Len(run.batches)}

\* C15: retryFailedFrames, called with failed tasks and no run in progress,
\* starts a run of exactly the frames that failed, and the task of every item
\* it dispatches keeps the retryCount the failed task had.
C15_RetryKeepsRetryCount ==
  [][(failedTasks # <<>> /\ ~isProcessing /\ retryFailedFrames)
       => /\ \E r \in RunIds :
               /\ runs[r].pc = "off"
               /\ runs'[r].pc = "batch"
               /\ FramesOf(runs'[r]) = Range(FailedFrames)
          /\ \A i \in 1..Len(failedTasks) :
               LET f == failedTasks[i].frameIndex
               IN task'[f].pc = "lookup" => task'[f].retryCount = failedTasks[i].retryCount]_vars

\* The cache lookup of frame f finds an entry.
CacheHit(f) == task[f].pc = "lookup" /\ Fingerprint(f) \in cache /\ LookupReturns(f)

\* C17: an item whose fingerprint is in the cache completes with isFromCache,
\* without an upstream call and without a concurrency slot, and when it ends
\* its run, cachedFrames is the number of the run's items served from the cache.
C17_CacheHitCounted ==
  [][\A f \in Frames : CacheHit(f)
       => /\ frameStates'[f].isFromCache
          /\ progress'.completedFrames = progress.completedFrames + 1
          /\ UNCHANGED rmVars
          /\ progress'.phase = "complete"
               => progress'.cachedFrames =
                    Cardinality({g \in FramesOf(runs[task[f].run]) : frameStates'[g].isFromCache})]_vars

\* C18: setQualityProfile called while the phase is 'processing' changes
\* neither the quality profile nor the concurrency ceiling.
C18_ProfileLockedWhileProcessing ==
  [][\A profile \in AllProfiles :
       (progress.phase = "processing" /\ setQualityProfile(profile))
         => /\ progress'.qualityProfile = progress.qualityProfile
            /\ maxConcurrency' = maxConcurrency]_vars

\* C19: while a run submitted with profile p is live the concurrency ceiling
\* is 1/2/3, and the delay it sleeps between two batches is 4000/2500/1500 ms,
\* for p = conservative/balanced/aggressive.
C19_ProfileSetsCeilingAndDelay ==
  \A r \in RunIds :
    runs[r].pc \in {"batch", "delay"}
      => /\ maxConcurrency = ConcurrencyLimits(runs[r].qualityProfile)
         /\ runs[r].pc = "delay"
              => InterBatchDelay(runs[r].adaptiveDelayMs) = AdaptiveDelayMs(runs[r].qualityProfile)

\* C20: when storing a freshly computed result in the cache fails, the item
\* completes without error and is counted in completedFrames, not in
\* failedFrames, and it is not kept for a retry.
C20_StoreFailureStillCompletes ==
  [][\A f \in Frames : (task[f].pc = "store" /\ StoreReturns(f, FALSE))
       => /\ progress'.completedFrames = progress.completedFrames + 1
          /\ progress'.failedFrames = progress.failedFrames
          /\ failedTasks' = failedTasks
          /\ frameStates'[f].error = "null"
          /\ task'[f] = NoTask]_vars

\* A run that ended with every frame completed although no result was stored.
C20_CompletedUnstored ==
  /\ progress.phase = "complete"
  /\ progress.completedFrames = NumFrames
  /\ progress.failedFrames = 0
  /\ cache = {}

\* No analyzeFrame call is working on frame f: its item has taken its final
\* form, or the frame was never submitted.
Final(f) == task[f].pc = "none"

\* C28: once the state of an item has taken its final form for a run, no later
\* event of that run changes it: the state of a frame changes only while an
\* analyzeFrame call is working on it, or when a new one starts.
C28_FinalStateStays ==
  [][\A f \in Frames : (Final(f) /\ task'[f].pc = "none")
       => frameStates'[f] = frameStates[f]]_vars

\* C31: a retryFailedFrames call made while a run is in progress changes
\* nothing: the progress record, the running batches and the failed tasks a
\* later retryFailedFrames would submit stay as they were.
C31_RejectedCallChangesNothing ==
  [][(isProcessing /\ retryFailedFrames) => UNCHANGED <<progress, runs, failedTasks>>]_vars

\* ------------------------------------------------ properties, token budget
\* The quota snapshot affords k frames.
Affords(k) ==
  /\ tokenUsage.known
  /\ (tokenUsage.remainingTokens - TOKEN_SAFETY_BUFFER) \div ANALYSIS_TOKENS_PER_FRAME = k

\* C16: when 10 items are planned under a quota snapshot that affords only 4
\* frames, the first batch has at most 4 items and the delay slept before the
\* next batch is a suggestedDelay reported by checkBudgetStatus (for the whole
\* list or for one more frame), not the profile's fixed delay.
C16_BudgetShapesBatchAndDelay ==
  [][\A q \in AllProfiles : (Affords(4) /\ planBatches(MaxTasks, FALSE, q))
       => /\ Len(planned'.batches[1]) <= 4
          /\ planned'.delay \in
               {checkBudgetStatus(MaxTasks * ANALYSIS_TOKENS_PER_FRAME).suggestedDelay,
                checkBudgetStatus(ANALYSIS_TOKENS_PER_FRAME).suggestedDelay}]_vars

\* The requests explored: the analysis of 1..MaxTasks frames.
Requested == {n * ANALYSIS_TOKENS_PER_FRAME : n \in 1..MaxTasks}

\* There is a quota snapshot and it does not cover requestedTokens.
Insufficient(requestedTokens) ==
  /\ tokenUsage.known
  /\ requestedTokens > tokenUsage.remainingTokens - TOKEN_SAFETY_BUFFER

\* The largest number of frames the snapshot affords.
AffordableFrames ==
  Max(0, (tokenUsage.remainingTokens - TOKEN_SAFETY_BUFFER) \div ANALYSIS_TOKENS_PER_FRAME)

TimeToReset == Max(0, tokenUsage.resetTime - now)

\* C21 as stated: when the snapshot does not cover the request,
\* recommendedBatchSize is the number of affordable frames, and when that is
\* zero canProceed is false and suggestedDelay is the time to reset + 1000 ms.
C21_RecommendsAffordable ==
  \A requestedTokens \in Requested :
    Insufficient(requestedTokens)
      => LET status == checkBudgetStatus(requestedTokens)
         IN /\ status.recommendedBatchSize = AffordableFrames
            /\ AffordableFrames = 0
                 => ~status.canProceed /\ status.suggestedDelay = TimeToReset + 1000

\* C21, amended: when the snapshot does not cover the request,
\* recommendedBatchSize is the number of affordable frames but at least 1,
\* canProceed tells whether a frame is affordable, and suggestedDelay is the
\* time to reset + 1000 ms.
C21_RecommendsAffordableOrOne ==
  \A requestedTokens \in Requested :
    Insufficient(requestedTokens)
      => LET status == checkBudgetStatus(requestedTokens)
         IN /\ status.recommendedBatchSize = Max(1, AffordableFrames)
            /\ status.canProceed = (AffordableFrames > 0)
            /\ status.suggestedDelay = TimeToReset + 1000

\* A list planned one frame at a time under a snapshot that affords no frame.
C21_NothingAffordable ==
  /\ Affords(0)
  /\ planned.tasks = MaxTasks
  /\ planned.batchSize = 1
  /\ planned.delay = TimeToReset + 1000

\* C22: for every frame count above 0 the estimate with descriptions is
\* strictly below the estimate without (200 against 1900 tokens per frame),
\* and either total is the sum of its analysis and prompt tokens.
C22_CheaperWithDescriptions ==
  /\ planned.tokenEstimate.totalTokens =
       planned.tokenEstimate.analysisTokens + planned.tokenEstimate.promptTokens
  /\ planned.tokenEstimate.totalTokens =
       planned.tasks * (IF planned.hasDescriptions THEN 200 ELSE 1900)
  /\ \A frameCount \in 1..MaxFrameCount :
       LET cheap == estimateTokensForBatch(frameCount, TRUE)
           full == estimateTokensForBatch(frameCount, FALSE)
       IN /\ cheap.totalTokens < full.totalTokens
          /\ cheap.totalTokens = cheap.analysisTokens + cheap.promptTokens
          /\ full.totalTokens = full.analysisTokens + full.promptTokens

\* A list of MaxFrameCount frames with descriptions was estimated.
C22_EstimatedWithDescriptions ==
  /\ planned.tasks = MaxFrameCount
  /\ planned.hasDescriptions
  /\ planned.tokenEstimate.totalTokens = 200 * MaxFrameCount

\* C29: whenever at least one task is planned, the batch size createBatches
\* cuts the list with is at least 1, under every quota snapshot.
C29_BatchSizeAtLeastOne ==
  \A n \in 1..MaxTasks, q \in AllProfiles : BatchSize(n, q) >= 1

\* The concatenation of the batches b[1..k].
RECURSIVE Flatten(_, _)
Flatten(b, k) == IF k = 0 THEN <<>> ELSE Flatten(b, k - 1) \o b[k]

\* C30: createBatches partitions the tasks in submission order: the batches
\* concatenated are the submitted list, every batch but the last has the size
\* min(profile batch size, recommendedBatchSize) and the last is no larger.
C30_BatchesPartitionTasks ==
  [][\A n \in 1..MaxTasks, q \in AllProfiles : planBatches(n, FALSE, q)
       => LET b == planned'.batches
              size == Min(BatchSizes(q),
                          checkBudgetStatus(n * ANALYSIS_TOKENS_PER_FRAME).recommendedBatchSize)
          IN /\ Flatten(b, Len(b)) = [i \in 1..n |-> i]
             /\ \A k \in 1..Len(b) :
                  /\ Len(b[k]) <= size
                  /\ k < Len(b) => Len(b[k]) = size]_vars

\* C33: updateTokenUsage called with feedback that lacks the quota headers
\* leaves the budget advice unchanged: the remaining budget is not lowered and
\* checkBudgetStatus answers as it did before the call.
C33_MissingHeadersChangeNothing ==
  [][updateTokenUsage(<<>>, <<>>)
       => /\ getRemainingBudget'.tokens >= getRemainingBudget.tokens
          /\ \A requestedTokens \in Requested :
               checkBudgetStatus(requestedTokens)' = checkBudgetStatus(requestedTokens)]_vars

\* C34: with a quota snapshot present, a batch dispatched less than 1000 ms
\* after the previous one (3000 ms when the token rate exceeds 80% of the
\* ceiling) is throttled: processBatch sleeps before it dispatches.
C34_ThrottlesRecentRequest ==
  [][(processBatch /\ issuedAt # 0 /\ shouldThrottleSinceDispatch) => throttled']_vars

\* C35: a lookup never returns a row past its expiry, and once the
\* recomputation after a miss has succeeded and its insert has returned, a
\* description is stored that lookups of that fingerprint are served, whether
\* or not the expiry sweep has run in between.
C35_ExpiredMissThenStored ==
  [][\A item \in Items :
       LET imageHash == image_hash(item)
       IN /\ (CacheLookup(item) /\ cacheRows[imageHash].state = "expired")
               => lookup'[item].pc = "request"
          /\ (InsertReturns(item) /\ lookup[item].expired)
               => Visible(cacheRows'[imageHash])]_vars

\* C36: a cache hit never returns a result computed for a different payload:
\* the description a lookup is served was computed for the same image data.
C36_HitIsForSamePayload ==
  \A item \in Items :
    lookup[item].pc = "hit" => imageData(lookup[item].result) = imageData(item)

\* ------------------------------------------------ properties, batch analysis
\* C32 as stated: withRetry invokes the unit of work at most maxRetries times.
C32_AtMostMaxRetriesCalls == retryCall.calls <= retryCall.maxRetries

\* C32: withRetry invokes the unit of work at most maxRetries + 1 times (the
\* first attempt and maxRetries retries, 4 by default); it stops at the first
\* attempt that succeeds, and when every attempt fails it rejects with the
\* error of the last attempt.
C32_AtMostMaxRetriesPlusOne ==
  LET outcomes == retryCall.outcomes
  IN /\ retryCall.calls <= Len(outcomes) + 1
     /\ Len(outcomes) <= retryCall.maxRetries + 1
     /\ \A i \in 1..(Len(outcomes) - 1) : outcomes[i] # "ok"
     /\ retryCall.pc = "resolved" <=> (outcomes # <<>> /\ outcomes[Len(outcomes)] = "ok")
     /\ retryCall.pc = "rejected" =>
          /\ Len(outcomes) = retryCall.maxRetries + 1
          /\ retryCall.lastError = outcomes[Len(outcomes)]

\* A call with the default maxRetries has invoked the unit of work four times
\* and rejects.
C32_RejectedAfterFourCalls ==
  /\ retryCall.pc = "rejected"
  /\ retryCall.maxRetries = DefaultMaxRetries
  /\ retryCall.calls = DefaultMaxRetries + 1

\* ------------------------------------------------ properties, sequential queue
Running == {id \in JobIds : job[id].fn = "running"}

\* C37: the sequential queue runs at most one queued function at a time.
C37_OneFunctionAtATime == Cardinality(Running) <= 1

Queued(id) == \E i \in 1..Len(queueRef.queue) : queueRef.queue[i] = id

\* While the queue stays paused no function starts; a function added while
\* the queue is paused is kept; the function that starts is the one that was
\* added first among those queued.
PauseHolds ==
  [][/\ (queueRef.paused /\ queueRef'.paused) => started' = started
     /\ \A id \in JobIds : (add(id) /\ queueRef.paused /\ ~queueRef.cancelled)
                             => queueRef'.queue = Append(queueRef.queue, id)
     /\ (started' # started /\ queueRef.queue # <<>>)
          => started' = Append(started, Head(queueRef.queue))]_vars

\* C38: after pause() no further queued function starts, functions added
\* while paused are kept, and once the queue is not paused every function
\* still queued is eventually run, in the order of the adds, unless cancel or
\* stop removes it (its function was not called and its promise is rejected).
C38_PausedThenResumedRunsAll ==
  /\ PauseHolds
  /\ \A id \in JobIds :
       (Queued(id) /\ ~queueRef.paused)
         ~> \/ job[id].fn # "idle"
            \/ job[id].fn = "idle" /\ job[id].promise = "rejected"
            \/ queueRef.paused

\* ------------------------------------------------ properties, direct processor
\* The frame has nothing of the processor ahead of it: no request in flight,
\* no callback waiting, no retry timer armed.
AtRest(frameIndex) ==
  /\ request[frameIndex].pc = "idle"
  /\ retryTimeouts[frameIndex] # "armed"

\* C39: a frame whose request failed and which the processor has left at rest
\* (no retry of it is ahead) shows the error 'Max retries reached. Please try
\* again later.', is not waiting to retry, and has no retry pending.
C39_AtRestAfterFailureIsExhausted ==
  \A frameIndex \in DirectFrames :
    (AtRest(frameIndex) /\ request[frameIndex].failed /\ ~cleared[frameIndex])
      => /\ directFrameStates[frameIndex].error = "Max retries reached. Please try again later."
         /\ ~directFrameStates[frameIndex].isWaitingToRetry

\* C40: from clearFrameState(frameIndex) until the caller starts a new
\* operation on the frame, the frame's state is the default state.
C40_ClearedStaysDefault ==
  \A frameIndex \in DirectFrames :
    cleared[frameIndex] => directFrameStates[frameIndex] = DefaultDirectState

====
